---- MODULE Spec2Model ----
(***************************************************************************)
(* DateNest: the content-addressed library store of app.py (class DB, the  *)
(* scan, export and import handlers of MainWindow), its schema and trigger *)
(* (scripts/init_db.py), and the file importer of datenest/importer.py.    *)
(*                                                                         *)
(* A table is the set of its rows; a row is a record of its columns.  The  *)
(* annotations table is a bag of rows without the surrogate id column,     *)
(* which no operation of the program exposes.  Columns that no operation   *)
(* reads (users.display_name, tags.description, images.run_id, ...) are    *)
(* left out.  Every DB method is an operator from a store to a result      *)
(* [db, status, value]: the store it leaves committed, "ok" or the         *)
(* exception it raises, and its return value.                              *)
(***************************************************************************)
EXTENDS Integers, Sequences, FiniteSets, Bags, TLC

VARIABLES
    users,          \* table users: [id, username]
    images,         \* table images: [id, rel_path, sha256, created_at]
    tags,           \* table tags: [id, name, category]
    annotations,    \* table annotations (bag): [image_id, tag_id, user_id, created_at, is_deleted]
    quality_votes,  \* table quality_votes: [id, image_id, user_id, label, score, created_at]
    attachments,    \* table attachments: [id, image_id, kind, rel_path, sha256, created_at]
    disk,           \* the files under the library root: [path, sha256, mtime, readable]
    items,          \* MainWindow.list: the scanned images, [path, image_id], in scan order
    index,          \* MainWindow.map_*: image id -> [tags_lower, cats, users, labels, has_csv, created_at]
    hidden,         \* the positions of the list whose item is hidden
    query,          \* MainWindow.search: the text of the search box, as its tokens
    archive,        \* the exported zip file: its manifest and its members
    filedb,         \* the database of datenest/importer.py: [files, tags, file_tags]
    ret             \* outcome of the latest call: [op, status, value]

storeVars == <<users, images, tags, annotations, quality_votes, attachments>>
vars == <<users, images, tags, annotations, quality_votes, attachments,
          disk, items, index, hidden, query, archive, filedb, ret>>

----------------------------------------------------------------------------
(* Program constants *)

\* trg_limit_annotators: "... >= 5"
MaxAnnotators == 5

\* quality_votes: CHECK(label IN ('good','review','bad'))
QUALITY_LABELS == {"good", "review", "bad"}

----------------------------------------------------------------------------
(* Bounds of the model *)

\* timestamps (datetime.now(), file mtimes) are drawn from 1..MaxTime
MaxTime == 2
\* SpecVotes: upsert_quality is called while the next vote id is at most MaxVoteId
MaxVoteId == 4
\* SpecIngest: a bundle is imported while the next vote id is at most MaxImportVoteId
\* (every import replaces the votes of the bundle under new ids)
MaxImportVoteId == 2
\* SpecFiles: the number of paths passed to one call of import_files
MaxFiles == 2
\* SpecRows: the highest id an image, attachment or quality vote row is given
MaxRowId == 2
\* the ticks of one day of the search dates (mtimes are counted in ticks)
DayLen == 2
\* SpecUI: the number of tokens of a search text
MaxTokens == 2
\* SpecCap: the users that annotate the one image (one more than the cap)
NumCapUsers == 6

Times == 1..MaxTime
\* a path under the library root: the directory, the "_"-separated parts of
\* the stem and the suffix of the file name; <<"sub", <<"a", "1">>, ".csv">>
\* is sub/a_1.csv.  rel_path columns hold the same triple (as_posix() and
\* Path() convert between the two without loss).
Path(dir, stem, ext) == <<dir, stem, ext>>

\* SQL NULL and Python None (timestamps, scores and ids start at 1)
NULL == 0
NoValue == NULL

\* datenest/db.py connect() on a new file: SCHEMA with every table empty
\* file_tags has no key of its own: its rows are kept as a bag
EmptyFileDB == [files |-> {}, tags |-> {}, file_tags |-> EmptyBag]

\* no zip file has been written.  An archive is [written, manifest, username,
\* tags, images, members]: manifest tells whether manifest.json is there and
\* parses, username, tags and images are its content
NoArchive ==
    [written |-> FALSE, manifest |-> FALSE, username |-> "", tags |-> <<>>, images |-> <<>>,
     members |-> {}]

----------------------------------------------------------------------------
(* The store *)

DBState ==
    [users |-> users, images |-> images, tags |-> tags,
     annotations |-> annotations, quality_votes |-> quality_votes,
     attachments |-> attachments]

EmptyDB ==
    [users |-> {}, images |-> {}, tags |-> {}, annotations |-> EmptyBag,
     quality_votes |-> {}, attachments |-> {}]

SetDB(d) ==
    /\ users' = d.users
    /\ images' = d.images
    /\ tags' = d.tags
    /\ annotations' = d.annotations
    /\ quality_votes' = d.quality_votes
    /\ attachments' = d.attachments

MaxOf(S) == CHOOSE m \in S : \A x \in S : x <= m

\* INTEGER PRIMARY KEY without a value: the largest rowid of the table plus one
lastrowid(rows) == IF rows = {} THEN 1 ELSE MaxOf({r.id : r \in rows}) + 1

Ids(rows) == {r.id : r \in rows}

Ok(d, v) == [db |-> d, status |-> "ok", value |-> v]
IntegrityError(d) == [db |-> d, status |-> "IntegrityError", value |-> NoValue]

AnnRows(d) == BagToSet(d.annotations)

----------------------------------------------------------------------------
(* class DB *)

\* mutant: INSERT without the SELECT
ensure_user_insert(d, username) ==
    LET id == lastrowid(d.users)
    IN  Ok([d EXCEPT !.users = @ \cup {[id |-> id, username |-> username]}], id)

ensure_user(d, username) ==
    LET r == {u \in d.users : u.username = username}
    IN  IF r # {}
        THEN Ok(d, (CHOOSE u \in r : TRUE).id)
        ELSE LET id == lastrowid(d.users)
             IN  Ok([d EXCEPT !.users = @ \cup {[id |-> id, username |-> username]}], id)

\* mutant: the stored row is looked up by rel_path instead of sha256
upsert_image_by_path(d, rel_path, sha256, created_at) ==
    LET r == {i \in d.images : i.rel_path = rel_path}
    IN  IF r # {}
        THEN Ok(d, (CHOOSE i \in r : TRUE).id)
        ELSE LET id == lastrowid(d.images)
             IN  Ok([d EXCEPT !.images = @ \cup
                        {[id |-> id, rel_path |-> rel_path, sha256 |-> sha256,
                          created_at |-> created_at]}], id)

\* mutant: the row is looked up by rel_path and takes the new digest
upsert_image_repoint(d, rel_path, sha256, created_at) ==
    LET r == {i \in d.images : i.rel_path = rel_path}
    IN  IF r # {}
        THEN LET row == CHOOSE i \in r : TRUE
             IN  Ok([d EXCEPT !.images =
                        {IF i.id = row.id THEN [i EXCEPT !.sha256 = sha256] ELSE i : i \in @}],
                    row.id)
        ELSE LET id == lastrowid(d.images)
             IN  Ok([d EXCEPT !.images = @ \cup
                        {[id |-> id, rel_path |-> rel_path, sha256 |-> sha256,
                          created_at |-> created_at]}], id)

\* mutant: the stored row keeps its rel_path
upsert_image_keep_path(d, rel_path, sha256, created_at) ==
    LET r == {i \in d.images : i.sha256 = sha256}
    IN  IF r # {}
        THEN Ok(d, (CHOOSE i \in r : TRUE).id)
        ELSE LET id == lastrowid(d.images)
             IN  Ok([d EXCEPT !.images = @ \cup
                        {[id |-> id, rel_path |-> rel_path, sha256 |-> sha256,
                          created_at |-> created_at]}], id)

upsert_image(d, rel_path, sha256, created_at) ==
    LET r == {i \in d.images : i.sha256 = sha256}
    IN  IF r # {}
        THEN LET row == CHOOSE i \in r : TRUE
             IN  Ok([d EXCEPT !.images =
                        {IF i.id = row.id THEN [i EXCEPT !.rel_path = rel_path] ELSE i : i \in @}],
                    row.id)
        ELSE LET id == lastrowid(d.images)
             IN  Ok([d EXCEPT !.images = @ \cup
                        {[id |-> id, rel_path |-> rel_path, sha256 |-> sha256,
                          created_at |-> created_at]}], id)

\* mutant: the stored tag is looked up by name alone
upsert_tag_by_name(d, name, category) ==
    LET r == {t \in d.tags : t.name = name}
    IN  IF r # {}
        THEN Ok(d, (CHOOSE t \in r : TRUE).id)
        ELSE LET id == lastrowid(d.tags)
             IN  Ok([d EXCEPT !.tags = @ \cup
                        {[id |-> id, name |-> name, category |-> category]}], id)

upsert_tag(d, name, category) ==
    LET r == {t \in d.tags : t.name = name /\ t.category = category}
    IN  IF r # {}
        THEN Ok(d, (CHOOSE t \in r : TRUE).id)
        ELSE LET id == lastrowid(d.tags)
             IN  Ok([d EXCEPT !.tags = @ \cup
                        {[id |-> id, name |-> name, category |-> category]}], id)

\* distinct users holding an active annotation on the image
ActiveAnnotators(d, image_id) ==
    {r.user_id : r \in {x \in AnnRows(d) : x.image_id = image_id /\ x.is_deleted = 0}}

\* mutant: the trigger compares with > instead of >=
trg_limit_annotators_gt(d, image_id) ==
    Cardinality(ActiveAnnotators(d, image_id)) > MaxAnnotators

\* BEFORE INSERT ON annotations: TRUE when the trigger raises ABORT
trg_limit_annotators(d, image_id) ==
    Cardinality(ActiveAnnotators(d, image_id)) >= MaxAnnotators

\* INSERT INTO annotations(...) VALUES(?,?,?,?,0): the trigger, UNIQUE(image_id,
\* tag_id, user_id) and the three foreign keys
insert_annotation(d, image_id, tag_id, user_id, now) ==
    IF \/ trg_limit_annotators(d, image_id)
       \/ \E r \in AnnRows(d) :
              r.image_id = image_id /\ r.tag_id = tag_id /\ r.user_id = user_id
       \/ image_id \notin Ids(d.images)
       \/ tag_id \notin Ids(d.tags)
       \/ user_id \notin Ids(d.users)
    THEN IntegrityError(d)
    ELSE Ok([d EXCEPT !.annotations = @ (+) SetToBag(
                {[image_id |-> image_id, tag_id |-> tag_id, user_id |-> user_id,
                  created_at |-> now, is_deleted |-> 0]})], NoValue)

\* mutant: the reactivating UPDATE is subject to the annotator limit too
reactivate_annotation_limited(d, row, now) ==
    IF trg_limit_annotators(d, row.image_id)
    THEN IntegrityError(d)
    ELSE Ok([d EXCEPT !.annotations = (@ (-) SetToBag({row})) (+)
                SetToBag({[row EXCEPT !.is_deleted = 0, !.created_at = now]})], NoValue)

\* mutant: re-adding inserts a second, active row and keeps the soft-deleted one
reactivate_annotation_insert(d, row, now) ==
    Ok([d EXCEPT !.annotations = @ (+)
            SetToBag({[row EXCEPT !.is_deleted = 0, !.created_at = now]})], NoValue)

\* UPDATE annotations SET is_deleted=0, created_at=? WHERE id=?
reactivate_annotation(d, row, now) ==
    Ok([d EXCEPT !.annotations = (@ (-) SetToBag({row})) (+)
            SetToBag({[row EXCEPT !.is_deleted = 0, !.created_at = now]})], NoValue)

\* mutant: an active row is rewritten with the time of the call
add_tag_for_user_touch(d, image_id, tag_name, user_id, category, now) ==
    LET t == upsert_tag(d, tag_name, category)
        r == {a \in AnnRows(t.db) :
                a.image_id = image_id /\ a.tag_id = t.value /\ a.user_id = user_id}
    IN  IF r # {}
        THEN LET row == CHOOSE a \in r : TRUE
             IN  IF row.is_deleted # 0
                 THEN reactivate_annotation(t.db, row, now)
                 ELSE reactivate_annotation(t.db, row, now)
        ELSE insert_annotation(t.db, image_id, t.value, user_id, now)

add_tag_for_user(d, image_id, tag_name, user_id, category, now) ==
    LET t == upsert_tag(d, tag_name, category)
        r == {a \in AnnRows(t.db) :
                a.image_id = image_id /\ a.tag_id = t.value /\ a.user_id = user_id}
    IN  IF r # {}
        THEN LET row == CHOOSE a \in r : TRUE
             IN  IF row.is_deleted # 0
                 THEN reactivate_annotation(t.db, row, now)
                 ELSE Ok(t.db, NoValue)
        ELSE insert_annotation(t.db, image_id, t.value, user_id, now)

\* mutant: DELETE FROM annotations instead of the soft delete
soft_delete_annotations_hard(d, image_id, tag_id, user_id, now) ==
    LET keep == {a \in AnnRows(d) :
                    ~(a.image_id = image_id /\ a.tag_id = tag_id /\ a.user_id = user_id)}
    IN  Ok([d EXCEPT !.annotations = [a \in keep |-> d.annotations[a]]], NoValue)

\* UPDATE annotations SET is_deleted=1, created_at=? WHERE image_id=? AND tag_id=? AND user_id=?
soft_delete_annotations(d, image_id, tag_id, user_id, now) ==
    LET hit(a) == a.image_id = image_id /\ a.tag_id = tag_id /\ a.user_id = user_id
        rows == AnnRows(d)
        keep == [a \in {x \in rows : ~hit(x)} |-> d.annotations[a]]
        upd(a) == [a EXCEPT !.is_deleted = 1, !.created_at = now]
        new == {upd(a) : a \in {x \in rows : hit(x)}}
        cnt(n) == LET src == {a \in rows : hit(a) /\ upd(a) = n}
                      RECURSIVE Sum(_)
                      Sum(S) == IF S = {} THEN 0
                                ELSE LET a == CHOOSE x \in S : TRUE
                                     IN  d.annotations[a] + Sum(S \ {a})
                  IN  Sum(src)
    IN  Ok([d EXCEPT !.annotations = keep (+) [n \in new |-> cnt(n)]], NoValue)

remove_tag_for_user(d, image_id, tag_name, user_id, category, now) ==
    LET r == {t \in d.tags : t.name = tag_name /\ t.category = category}
    IN  IF r = {}
        THEN Ok(d, NoValue)
        ELSE soft_delete_annotations(d, image_id, (CHOOSE t \in r : TRUE).id, user_id, now)

\* mutant: INSERT OR IGNORE, which keeps the stored vote
upsert_quality_ignore(d, image_id, user_id, label, score, when, now) ==
    IF \/ label \notin QUALITY_LABELS
       \/ image_id \notin Ids(d.images)
       \/ user_id \notin Ids(d.users)
    THEN IntegrityError(d)
    ELSE IF \E q \in d.quality_votes : q.image_id = image_id /\ q.user_id = user_id
         THEN Ok(d, NoValue)
         ELSE Ok([d EXCEPT !.quality_votes = @ \cup
                    {[id |-> lastrowid(d.quality_votes), image_id |-> image_id,
                      user_id |-> user_id, label |-> label, score |-> score,
                      created_at |-> IF when = NULL THEN now ELSE when]}], NoValue)

\* INSERT OR REPLACE INTO quality_votes: CHECK(label IN ...) and the foreign
\* keys abort the statement; a row with the same (image_id, user_id) is
\* deleted and the new row takes a new rowid
upsert_quality(d, image_id, user_id, label, score, when, now) ==
    IF \/ label \notin QUALITY_LABELS
       \/ image_id \notin Ids(d.images)
       \/ user_id \notin Ids(d.users)
    THEN IntegrityError(d)
    ELSE LET old == {q \in d.quality_votes : q.image_id = image_id /\ q.user_id = user_id}
         IN  Ok([d EXCEPT !.quality_votes = (@ \ old) \cup
                    {[id |-> lastrowid(d.quality_votes), image_id |-> image_id,
                      user_id |-> user_id, label |-> label, score |-> score,
                      created_at |-> IF when = NULL THEN now ELSE when]}], NoValue)

\* mutant: the row found by digest is moved to the image of the call
upsert_attachment_relink(d, image_id, kind, rel_path, sha256, created_at) ==
    LET r == {a \in d.attachments : a.sha256 = sha256}
    IN  IF r # {}
        THEN LET row == CHOOSE a \in r : TRUE
             IN  IF image_id \notin Ids(d.images)
                 THEN IntegrityError(d)
                 ELSE Ok([d EXCEPT !.attachments =
                            {IF x.id = row.id THEN [x EXCEPT !.image_id = image_id] ELSE x
                                : x \in @}], row.id)
        ELSE IF image_id \notin Ids(d.images)
             THEN IntegrityError(d)
             ELSE LET id == lastrowid(d.attachments)
                  IN  Ok([d EXCEPT !.attachments = @ \cup
                             {[id |-> id, image_id |-> image_id, kind |-> kind,
                               rel_path |-> rel_path, sha256 |-> sha256,
                               created_at |-> created_at]}], id)

\* mutant: no SELECT by digest, every call inserts
upsert_attachment_insert(d, image_id, kind, rel_path, sha256, created_at) ==
    IF image_id \notin Ids(d.images)
    THEN IntegrityError(d)
    ELSE LET id == lastrowid(d.attachments)
         IN  Ok([d EXCEPT !.attachments = @ \cup
                    {[id |-> id, image_id |-> image_id, kind |-> kind,
                      rel_path |-> rel_path, sha256 |-> sha256,
                      created_at |-> created_at]}], id)

\* SELECT id FROM attachments WHERE sha256=? ... INSERT INTO attachments(...):
\* the row found by digest is returned as it is; the INSERT is subject to the
\* foreign key on image_id
upsert_attachment(d, image_id, kind, rel_path, sha256, created_at) ==
    LET r == {a \in d.attachments : a.sha256 = sha256}
    IN  IF r # {}
        THEN Ok(d, (CHOOSE a \in r : TRUE).id)
        ELSE IF image_id \notin Ids(d.images)
             THEN IntegrityError(d)
             ELSE LET id == lastrowid(d.attachments)
                  IN  Ok([d EXCEPT !.attachments = @ \cup
                             {[id |-> id, image_id |-> image_id, kind |-> kind,
                               rel_path |-> rel_path, sha256 |-> sha256,
                               created_at |-> created_at]}], id)

\* mutant: foreign keys are not enforced, only the image row goes
delete_image_no_cascade(d, image_id) ==
    Ok([d EXCEPT !.images = {i \in @ : i.id # image_id}], NoValue)

\* DELETE FROM images WHERE id=? under PRAGMA foreign_keys=ON: the rows of
\* annotations, quality_votes and attachments that reference the image go
\* with it (ON DELETE CASCADE)
delete_image(d, image_id) ==
    Ok([d EXCEPT !.images = {i \in @ : i.id # image_id},
                 !.annotations = [a \in {x \in AnnRows(d) : x.image_id # image_id} |-> @[a]],
                 !.quality_votes = {q \in @ : q.image_id # image_id},
                 !.attachments = {a \in @ : a.image_id # image_id}], NoValue)

----------------------------------------------------------------------------
(* The files under the library root *)

IMAGE_EXTS == {".png", ".jpg", ".jpeg", ".bmp", ".tif", ".tiff"}

\* str.lower() on the suffixes and stem parts of the model
lower(s) ==
    CASE s = ".PNG" -> ".png"
      [] s = ".CSV" -> ".csv"
      [] s = "A" -> "a"
      [] s = "T1" -> "t1"
      [] s = "Bob" -> "bob"
      [] OTHER -> s

\* str.strip() on the tag names of the model
strip(t) ==
    CASE t = " t " -> "t"
      [] t = " t1 " -> "t1"
      [] t = "  " -> ""
      [] OTHER -> t

\* "_".join(parts)
RECURSIVE JoinStem(_)
JoinStem(parts) ==
    IF Len(parts) = 0 THEN ""
    ELSE IF Len(parts) = 1 THEN parts[1]
    ELSE parts[1] \o "_" \o JoinStem(Tail(parts))

RECURSIVE LowerStem(_)
LowerStem(parts) ==
    IF Len(parts) = 0 THEN ""
    ELSE IF Len(parts) = 1 THEN lower(parts[1])
    ELSE lower(parts[1]) \o "_" \o LowerStem(Tail(parts))

\* p.name.lower()
LowerName(path) == LowerStem(path[2]) \o lower(path[3])

IndexOf(seq, x) == CHOOSE i \in 1..Len(seq) : seq[i] = x

\* the lower-cased names of the image files of the model, ascending
SortedNames == <<"a.png", "b.png", "s1.png", "s2.png", "s3.png">>
\* the order in which the OS lists the directories and the file names of the
\* model (rglob and glob yield files in listing order)
ListedDirs == <<"", "attachments_imported", "imported", "sub">>
ListedNames == <<"a.PNG", "a.csv", "a.png", "a_1.csv", "a_2.csv", "b.csv", "b.png",
                 "c1.csv", "c2.csv", "s1.png", "s2.png", "s3.png", "x (copy).csv", "x.csv">>

ListingRank(path) ==
    IndexOf(ListedDirs, path[1]) * (Len(ListedNames) + 1)
        + IndexOf(ListedNames, JoinStem(path[2]) \o path[3])

\* sort key of paths.sort(key=lambda p: p.name.lower()); the sort is stable,
\* so files of one lower-cased name stay in listing order
ScanRank(path) ==
    IndexOf(SortedNames, LowerName(path)) * (Len(ListedDirs) + 1) * (Len(ListedNames) + 1)
        + ListingRank(path)

\* the elements of S by ascending rank[x]
RECURSIVE SortedSeq(_, _)
SortedSeq(S, rank) ==
    IF S = {} THEN <<>>
    ELSE LET m == CHOOSE x \in S : \A y \in S : rank[x] <= rank[y]
         IN  <<m>> \o SortedSeq(S \ {m}, rank)

\* def _safe_ext(name): Path(name).suffix.lower() or ".bin"
_safe_ext(path) == IF lower(path[3]) = "" THEN ".bin" ELSE lower(path[3])

FileAt(fs, path) == CHOOSE f \in fs : f.path = path
Exists(fs, path) == \E f \in fs : f.path = path

\* open(dst, "wb") / shutil.copy2: the file at f.path is created or replaced
WriteTo(fs, f) == {g \in fs : g.path # f.path} \cup {f}

----------------------------------------------------------------------------
(* MainWindow.reload_all: the directory scan *)

\* the (category, name) pairs of the model in the order of ORDER BY t.category, t.name
SortedTagKeys == << <<"", "T1">>, <<"", "t1">>, <<"", "t2">>, <<"condition", "t1">> >>

\* DB.get_tags_for_image: the active annotations of the image joined with
\* their tag and user, ORDER BY t.category, t.name (rows of one tag by user id)
get_tags_for_image(d, image_id) ==
    LET rows == {[username |-> x[3].username, name |-> x[2].name,
                  category |-> x[2].category, created_at |-> x[1].created_at,
                  user_id |-> x[1].user_id] :
                    x \in {y \in AnnRows(d) \X d.tags \X d.users :
                              /\ y[1].image_id = image_id /\ y[1].is_deleted = 0
                              /\ y[2].id = y[1].tag_id /\ y[3].id = y[1].user_id}}
    IN  SortedSeq(rows, [r \in rows |->
            IndexOf(SortedTagKeys, <<r.category, r.name>>) * (lastrowid(d.users) + 1) + r.user_id])

\* SELECT q.label, ... FROM quality_votes q JOIN users u ON u.id=q.user_id
\* WHERE q.image_id=?: the rows, of which the callers of the model use the set
get_quality_for_image(d, image_id) ==
    {q \in d.quality_votes : q.image_id = image_id /\ q.user_id \in Ids(d.users)}

\* SELECT id, rel_path FROM attachments WHERE image_id=? AND kind='csv'
get_csv_attachments(d, image_id) ==
    {a \in d.attachments : a.image_id = image_id /\ a.kind = "csv"}

Abs(n) == IF n < 0 THEN -n ELSE n

\* mutant: of several <stem>_*.csv the one farthest in time is kept
CsvCandidates_farthest(fs, p) ==
    LET siblings == {f \in fs : f.path[1] = p.path[1] /\ f.path[3] = ".csv"}
        exact == {f \in siblings : f.path[2] = p.path[2]}
        prefixed == {f \in siblings :
                        /\ Len(f.path[2]) > Len(p.path[2])
                        /\ SubSeq(f.path[2], 1, Len(p.path[2])) = p.path[2]}
        closest == SortedSeq(prefixed,
                       [f \in prefixed |->
                           Abs(f.mtime - p.mtime) * (Len(ListedDirs) + 1) * (Len(ListedNames) + 1)
                               + ListingRank(f.path)])
    IN  IF exact # {} THEN SortedSeq(exact, [f \in exact |-> 0])
        ELSE IF Cardinality(siblings) = 1 THEN SortedSeq(siblings, [f \in siblings |-> 0])
        ELSE IF Cardinality(prefixed) > 1 THEN <<closest[Len(closest)]>>
        ELSE closest

\* mutant: the rule of the sibling <stem>.csv is left out
CsvCandidates_no_exact(fs, p) ==
    LET siblings == {f \in fs : f.path[1] = p.path[1] /\ f.path[3] = ".csv"}
        prefixed == {f \in siblings :
                        /\ Len(f.path[2]) > Len(p.path[2])
                        /\ SubSeq(f.path[2], 1, Len(p.path[2])) = p.path[2]}
        closest == SortedSeq(prefixed,
                       [f \in prefixed |->
                           Abs(f.mtime - p.mtime) * (Len(ListedDirs) + 1) * (Len(ListedNames) + 1)
                               + ListingRank(f.path)])
    IN  IF Cardinality(siblings) = 1 THEN SortedSeq(siblings, [f \in siblings |-> 0])
        ELSE IF Cardinality(prefixed) > 1 THEN <<closest[1]>>
        ELSE closest

\* mutant: without a sibling <stem>.csv the first *.csv listed is taken,
\* however many there are
CsvCandidates_any_csv(fs, p) ==
    LET siblings == {f \in fs : f.path[1] = p.path[1] /\ f.path[3] = ".csv"}
        exact == {f \in siblings : f.path[2] = p.path[2]}
        listed == SortedSeq(siblings, [f \in siblings |-> ListingRank(f.path)])
    IN  IF exact # {} THEN SortedSeq(exact, [f \in exact |-> 0])
        ELSE IF siblings # {} THEN <<listed[1]>>
        ELSE <<>>

\* "CSV 自動紐づけ": the sibling <stem>.csv; else the only *.csv of the
\* directory; else the <stem>_*.csv whose mtime is closest to the image's
CsvCandidates(fs, p) ==
    LET siblings == {f \in fs : f.path[1] = p.path[1] /\ f.path[3] = ".csv"}
        exact == {f \in siblings : f.path[2] = p.path[2]}
        prefixed == {f \in siblings :
                        /\ Len(f.path[2]) > Len(p.path[2])
                        /\ SubSeq(f.path[2], 1, Len(p.path[2])) = p.path[2]}
        closest == SortedSeq(prefixed,
                       [f \in prefixed |->
                           Abs(f.mtime - p.mtime) * (Len(ListedDirs) + 1) * (Len(ListedNames) + 1)
                               + ListingRank(f.path)])
    IN  IF exact # {} THEN SortedSeq(exact, [f \in exact |-> 0])
        ELSE IF Cardinality(siblings) = 1 THEN SortedSeq(siblings, [f \in siblings |-> 0])
        ELSE IF Cardinality(prefixed) > 1 THEN <<closest[1]>>
        ELSE closest

\* for cand in cands: a CSV that cannot be read or linked is skipped
RECURSIVE attach_candidates(_, _, _)
attach_candidates(d, image_id, cands) ==
    IF cands = <<>> THEN d
    ELSE LET c == Head(cands)
             d1 == IF c.readable
                   THEN upsert_attachment(d, image_id, "csv", c.path, c.sha256, c.mtime).db
                   ELSE d
         IN  attach_candidates(d1, image_id, Tail(cands))

\* "検索インデックス": the entries of map_tags_lower, map_cats, map_users,
\* map_labels, map_has_csv and map_created_at written for one scanned file
IndexEntry(d, image_id, mtime) ==
    CHOOSE e \in
      {[tags_lower |-> {lower(tag_rows[k].name) : k \in 1..Len(tag_rows)},
        cats |-> {lower(tag_rows[k].category) : k \in 1..Len(tag_rows)},
        users |-> {lower(tag_rows[k].username) : k \in 1..Len(tag_rows)},
        labels |-> {lower(q.label) : q \in get_quality_for_image(d, image_id)},
        has_csv |-> get_csv_attachments(d, image_id) # {},
        created_at |-> mtime] : tag_rows \in {get_tags_for_image(d, image_id)}} : TRUE

\* the maps with the entry of one image id written or overwritten
PutEntry(mp, image_id, e) ==
    [i \in (DOMAIN mp) \cup {image_id} |-> IF i = image_id THEN e ELSE mp[i]]

\* for p in paths: a file that cannot be hashed is skipped
RECURSIVE scan_paths(_, _, _, _, _)
scan_paths(d, fs, paths, its, mp) ==
    IF paths = <<>> THEN [db |-> d, items |-> its, maps |-> mp]
    ELSE LET p == FileAt(fs, Head(paths))
         IN  IF ~p.readable
             THEN scan_paths(d, fs, Tail(paths), its, mp)
             ELSE \* i: the upsert of the image; d2: the store after the CSV
                  \* candidates of p are linked; e: the index entry of p
                  \* (each is bound to its value, which is computed once)
                  CHOOSE r \in
                    {scan_paths(d2, fs, Tail(paths),
                                Append(its, [path |-> p.path, image_id |-> i.value]),
                                PutEntry(mp, i.value, e)) :
                       <<i, d2, e>> \in
                         {<<j, d1, IndexEntry(d1, j.value, p.mtime)>> :
                            <<j, d1>> \in
                              {<<k, attach_candidates(k.db, k.value, CsvCandidates(fs, p))>> :
                                 k \in {upsert_image(d, p.path, p.sha256, p.mtime)}}}} : TRUE

\* the image files under the root sorted by lower-cased name (the thumbnail
\* cache, which the scan skips, is not part of fs); the list and the maps are
\* cleared first; result [db, items, maps]
reload_all(d, fs) ==
    LET paths == {f.path : f \in {g \in fs : lower(g.path[3]) \in IMAGE_EXTS}}
    IN  scan_paths(d, fs, SortedSeq(paths, [q \in paths |-> ScanRank(q)]), <<>>, <<>>)

----------------------------------------------------------------------------
(* MainWindow.on_search.  The text of the search box is the sequence of its  *)
(* whitespace-separated tokens; a token is [pre, val]: the prefix the code   *)
(* tests with startswith ("" for a token of no prefix) and the lexemes that  *)
(* follow it, e.g. date:d1..d2 is ["date:", <<"d1", "..", "d2">>].            *)

\* the ticks of one day; day k is the ticks DayStart(k) .. DayStart(k + 1) - 1
DayStart(k) == 1 + (k - 1) * DayLen

\* the strings datetime.fromisoformat accepts (any other raises ValueError),
\* and the midnight each names
IsoDates == {"d1", "d2", "d3"}
fromisoformat(s) ==
    CASE s = "d1" -> DayStart(1)
      [] s = "d2" -> DayStart(2)
      [] s = "d3" -> DayStart(3)

\* the text of the lexemes after a prefix
RECURSIVE Text(_)
Text(val) == IF val = <<>> THEN "" ELSE val[1] \o Text(Tail(val))

\* rel.lower() of an item's path, as_posix()
LowerRel(path) ==
    IF path[1] = "" THEN LowerName(path) ELSE lower(path[1]) \o "/" \o LowerName(path)

\* the substrings of the lower-cased paths and tag names of the model that
\* the queries of the model ask for
Substrings(t) ==
    CASE t = "a.png" -> {"a", "png", ".png", "a.png"}
      [] t = "b.png" -> {"b", "png", ".png", "b.png"}
      [] t = "sub/a.png" -> {"a", "b", "sub", "png", ".png", "a.png", "sub/a.png"}
      [] t = "t1" -> {"t", "1", "t1"}
      [] t = "t2" -> {"t", "2", "t2"}
      [] OTHER -> {t}

\* s in t
InStr(s, t) == s = "" \/ s \in Substrings(t)

\* a value that parses as one date: None for the empty string, "raise" for
\* a string fromisoformat rejects
ParseOpt(val) ==
    IF val = <<>> THEN NULL
    ELSE IF Len(val) = 1 /\ val[1] \in IsoDates THEN fromisoformat(val[1])
    ELSE -1

\* the try block of _parse_date(token) for v = token[5:].strip(): the pair
\* <<d1, d2>> with NULL for None, or Raised when fromisoformat raises
Raised == <<-1, -1>>
parse_date_try(v) ==
    LET dots == {k \in 1..Len(v) : v[k] = ".."}
        k == CHOOSE x \in dots : \A y \in dots : x <= y
        a == ParseOpt(SubSeq(v, 1, k - 1))
        b == ParseOpt(SubSeq(v, k + 1, Len(v)))
        d == ParseOpt(Tail(v))
        e == ParseOpt(v)
    IN  IF dots # {}
        THEN IF a = -1 \/ b = -1 THEN Raised ELSE <<a, b>>
        ELSE IF v # <<>> /\ v[1] = ">="
        THEN IF d \in {-1, NULL} THEN Raised ELSE <<d, NULL>>
        ELSE IF v # <<>> /\ v[1] = "<="
        THEN IF d \in {-1, NULL} THEN Raised ELSE <<NULL, d>>
        ELSE IF e \in {-1, NULL} THEN Raised ELSE <<e, e + DayLen>>

\* _parse_date: except Exception: return (None, None)
_parse_date(v) == IF parse_date_try(v) = Raised THEN <<NULL, NULL>> ELSE parse_date_try(v)

\* the argument on_search passes to _parse_date, after token[5:]: the value
\* of a date: token; for date>= and date<= the whole token goes in, of which
\* [5:] leaves "=" and the value
DateArg(t) == IF t.pre = "date:" THEN t.val ELSE <<"=">> \o t.val

DatePrefixes == {"date:", "date>=", "date<="}

\* date_range after the loop over the tokens: each date token overwrites it
RECURSIVE date_range_of(_, _)
date_range_of(q, acc) ==
    IF q = <<>> THEN acc
    ELSE date_range_of(Tail(q),
                       IF Head(q).pre \in DatePrefixes THEN _parse_date(DateArg(Head(q))) ELSE acc)

\* self.map_*.get(img_id, default)
MapGet(idx, image_id) ==
    IF image_id \in DOMAIN idx THEN idx[image_id]
    ELSE [tags_lower |-> {}, cats |-> {}, users |-> {}, labels |-> {}, has_csv |-> FALSE,
          created_at |-> NULL]

\* mutant: the end of the date range is inclusive
on_search_inclusive(its, idx, q) ==
    LET toks == {q[k] : k \in 1..Len(q)}
        tag_subs == {lower(Text(t.val)) : t \in {x \in toks : x.pre = "#" /\ x.val # <<>>}}
        cats == {lower(Text(t.val)) : t \in {x \in toks : x.pre = "cat:"}}
        users_ == {lower(Text(t.val)) : t \in {x \in toks : x.pre = "user:"}}
        labels == {lower(Text(t.val)) : t \in {x \in toks : x.pre = "label:"}}
        has_csv == \E t \in toks : t.pre = "has:" /\ lower(Text(t.val)) = "csv"
        name_subs == {lower(t.pre \o Text(t.val)) :
                        t \in {x \in toks : \/ x.pre = ""
                                            \/ x.pre = "#" /\ x.val = <<>>
                                            \/ x.pre = "has:" /\ lower(Text(x.val)) # "csv"}}
        dr == date_range_of(q, <<NULL, NULL>>)
    IN  {k \in 1..Len(its) :
            LET e == MapGet(idx, its[k].image_id)
            IN  \/ \E s \in name_subs : ~InStr(s, LowerRel(its[k].path))
                \/ \E s \in tag_subs : \A t \in e.tags_lower : ~InStr(s, t)
                \/ ~(cats \subseteq e.cats)
                \/ ~(users_ \subseteq e.users)
                \/ ~(labels \subseteq e.labels)
                \/ has_csv /\ ~e.has_csv
                \/ (dr[1] # NULL \/ dr[2] # NULL) /\
                      \/ e.created_at = NULL
                      \/ dr[1] # NULL /\ e.created_at < dr[1]
                      \/ dr[2] # NULL /\ e.created_at > dr[2]}

\* on_search(text): the positions of the list it hides.  The filters built
\* from the tokens, then for each item the tests in the order of the code
\* (an item is hidden by the first test it fails)
on_search(its, idx, q) ==
    LET toks == {q[k] : k \in 1..Len(q)}
        tag_subs == {lower(Text(t.val)) : t \in {x \in toks : x.pre = "#" /\ x.val # <<>>}}
        cats == {lower(Text(t.val)) : t \in {x \in toks : x.pre = "cat:"}}
        users_ == {lower(Text(t.val)) : t \in {x \in toks : x.pre = "user:"}}
        labels == {lower(Text(t.val)) : t \in {x \in toks : x.pre = "label:"}}
        has_csv == \E t \in toks : t.pre = "has:" /\ lower(Text(t.val)) = "csv"
        name_subs == {lower(t.pre \o Text(t.val)) :
                        t \in {x \in toks : \/ x.pre = ""
                                            \/ x.pre = "#" /\ x.val = <<>>
                                            \/ x.pre = "has:" /\ lower(Text(x.val)) # "csv"}}
        dr == date_range_of(q, <<NULL, NULL>>)
    IN  {k \in 1..Len(its) :
            LET e == MapGet(idx, its[k].image_id)
            IN  \/ \E s \in name_subs : ~InStr(s, LowerRel(its[k].path))
                \/ \E s \in tag_subs : \A t \in e.tags_lower : ~InStr(s, t)
                \/ ~(cats \subseteq e.cats)
                \/ ~(users_ \subseteq e.users)
                \/ ~(labels \subseteq e.labels)
                \/ has_csv /\ ~e.has_csv
                \/ (dr[1] # NULL \/ dr[2] # NULL) /\
                      \/ e.created_at = NULL
                      \/ dr[1] # NULL /\ e.created_at < dr[1]
                      \/ dr[2] # NULL /\ e.created_at >= dr[2]}

----------------------------------------------------------------------------
(* MainWindow.export_selection and MainWindow.import_archive *)

\* the rows of a table in rowid order
ById(rows) == SortedSeq(rows, [r \in rows |-> r.id])

\* one entry of manifest["images"]
ManifestRow(d, r) ==
    LET ann(a) == [username |-> a.username, tag |-> a.name, category |-> a.category,
                   created_at |-> a.created_at]
        vote(q) == [username |-> (CHOOSE u \in d.users : u.id = q.user_id).username,
                    label |-> q.label, score |-> q.score, created_at |-> q.created_at]
        att(a) == [kind |-> a.kind, sha256 |-> a.sha256, ext |-> _safe_ext(a.rel_path)]
        atts == ById({a \in d.attachments : a.image_id = r.id})
        anns == get_tags_for_image(d, r.id)
        votes == ById({q \in d.quality_votes : q.image_id = r.id})
    IN  [sha256 |-> r.sha256, rel_path |-> r.rel_path, created_at |-> r.created_at,
         attachments |-> [k \in 1..Len(atts) |-> att(atts[k])],
         annotations |-> [k \in 1..Len(anns) |-> ann(anns[k])],
         quality |-> [k \in 1..Len(votes) |-> vote(votes[k])]]

\* for it in items: the selected items whose image row exists, in list order
RECURSIVE ManifestRows(_, _, _)
ManifestRows(d, its, sel) ==
    IF sel = <<>> THEN <<>>
    ELSE LET r == {i \in d.images : i.id = its[Head(sel)].image_id}
         IN  (IF r = {} THEN <<>> ELSE <<ManifestRow(d, CHOOSE i \in r : TRUE)>>)
                 \o ManifestRows(d, its, Tail(sel))

\* the zip written for the selection sel (indices of its), with the image and
\* attachment files that exist under the root; a member is named by the
\* digest of its row and holds the bytes of the file as it is now.  With no
\* selection no zip is written.
export_selection(d, fs, its, sel, username) ==
    LET rows == ManifestRows(d, its, sel)
        seen_imgs == {rows[k].sha256 : k \in 1..Len(rows)}
        seen_atts == UNION {{rows[k].attachments[j].sha256 : j \in 1..Len(rows[k].attachments)} :
                                k \in 1..Len(rows)}
        member(folder, r) ==
            [name |-> <<folder, r.sha256, _safe_ext(r.rel_path)>>,
             sha256 |-> FileAt(fs, r.rel_path).sha256, readable |-> TRUE]
        srcs == {<<"images", r>> : r \in {i \in d.images : i.sha256 \in seen_imgs}}
                \cup {<<"attachments", r>> : r \in {a \in d.attachments : a.sha256 \in seen_atts}}
        present == {x \in srcs : Exists(fs, x[2].rel_path)}
    IN  IF sel = <<>>
        THEN [archive |-> NoArchive, status |-> "ok"]
        ELSE [archive |->
                 [written |-> TRUE, manifest |-> TRUE, username |-> username,
                  tags |-> [k \in 1..Len(ById(d.tags)) |->
                              [name |-> ById(d.tags)[k].name,
                               category |-> ById(d.tags)[k].category]],
                  images |-> rows,
                  members |-> {member(x[1], x[2]) :
                                  x \in {y \in present : FileAt(fs, y[2].rel_path).readable}}],
              status |-> IF \A x \in present : FileAt(fs, x[2].rel_path).readable
                         THEN "ok" ELSE "OSError"]

\* state of a running import: [db, disk, status]
HasMember(ar, name) == \E m \in ar.members : m.name = name
MemberOf(ar, name) == CHOOSE m \in ar.members : m.name = name

\* with z.open(member) as src, open(dst, "wb") as out: shutil.copyfileobj;
\* the file is created and holds the bytes the member yields
Extract(fs, ar, name, path, now) ==
    WriteTo(fs, [path |-> path, sha256 |-> MemberOf(ar, name).sha256,
                 mtime |-> now, readable |-> TRUE])

\* the exception of the copy when the member cannot be read to its end; it
\* is not caught in import_archive
ExtractStatus(ar, name) == IF MemberOf(ar, name).readable THEN "ok" ELSE "BadZipFile"

\* for att in im.get("attachments", [])
RECURSIVE import_attachments(_, _, _, _, _)
import_attachments(st0, ar, img_id, atts, now) ==
    \* st, st1: the state before and after the attachment (each is bound to
    \* its value, which is computed once)
    CHOOSE res \in
      {IF atts = <<>> \/ st.status # "ok" THEN st
       ELSE LET att == Head(atts)
                name == <<"attachments", att.sha256, att.ext>>
                dst == Path("attachments_imported", <<att.sha256>>, att.ext)
            IN  CHOOSE r \in
                  {import_attachments(st1, ar, img_id, Tail(atts), now) :
                     st1 \in
                       {IF /\ ~\E a \in st.db.attachments : a.sha256 = att.sha256
                           /\ HasMember(ar, name)
                        THEN IF ExtractStatus(ar, name) = "ok"
                             THEN [st EXCEPT
                                     !.disk = Extract(st.disk, ar, name, dst, now),
                                     !.db = upsert_attachment(st.db, img_id, att.kind, dst,
                                                              att.sha256, NULL).db]
                             ELSE [st EXCEPT
                                     !.disk = Extract(st.disk, ar, name, dst, now),
                                     !.status = ExtractStatus(ar, name)]
                        ELSE st}} : TRUE
         : st \in {st0}} : TRUE

\* for an in im.get("annotations", []): an exception of add_tag_for_user is
\* not caught and ends the import
RECURSIVE import_annotations(_, _, _, _)
import_annotations(st0, img_id, anns, now) ==
    CHOOSE res \in
      {IF anns = <<>> \/ st.status # "ok" THEN st
       ELSE LET an == Head(anns)
            IN  CHOOSE x \in
                  {import_annotations([st EXCEPT !.db = r.db, !.status = r.status],
                                      img_id, Tail(anns), now) :
                     r \in {add_tag_for_user(u.db, img_id, an.tag, u.value, an.category, now) :
                              u \in {ensure_user(st.db, an.username)}}} : TRUE
         : st \in {st0}} : TRUE

\* for q in im.get("quality", []): likewise for upsert_quality
RECURSIVE import_quality(_, _, _, _)
import_quality(st0, img_id, votes, now) ==
    CHOOSE res \in
      {IF votes = <<>> \/ st.status # "ok" THEN st
       ELSE LET q == Head(votes)
            IN  CHOOSE x \in
                  {import_quality([st EXCEPT !.db = r.db, !.status = r.status],
                                  img_id, Tail(votes), now) :
                     r \in {upsert_quality(u.db, img_id, u.value, q.label, q.score,
                                           q.created_at, now) :
                              u \in {ensure_user(st.db, q.username)}}} : TRUE
         : st \in {st0}} : TRUE

\* mutant: the import does not look for a stored row of the digest
select_image_by_sha_none(d, sha256) == {}

\* SELECT id FROM images WHERE sha256=?
select_image_by_sha(d, sha256) == {i \in d.images : i.sha256 = sha256}

\* for im in manifest.get("images", [])
RECURSIVE import_images(_, _, _, _)
import_images(st0, ar, ims, now) ==
    CHOOSE res \in
      {IF ims = <<>> \/ st.status # "ok" THEN st
       ELSE LET im == Head(ims)
                r == select_image_by_sha(st.db, im.sha256)
                name == <<"images", im.sha256, _safe_ext(im.rel_path)>>
                dst == Path("imported", <<im.sha256>>, _safe_ext(im.rel_path))
            IN  IF r = {} /\ ~HasMember(ar, name)
                THEN import_images(st, ar, Tail(ims), now)
                ELSE \* up: the upsert of the extracted image; st1..st4: the
                     \* state after the image, its attachments, annotations
                     \* and votes
                     CHOOSE x \in
                       {import_images(st4, ar, Tail(ims), now) :
                          st4 \in
                            {import_quality(
                                import_annotations(
                                   import_attachments(st1, ar, img_id, im.attachments, now),
                                   img_id, im.annotations, now),
                                img_id, im.quality, now) :
                               <<st1, img_id>> \in
                                 {<<IF r # {} THEN st
                                     ELSE IF ExtractStatus(ar, name) = "ok"
                                     THEN [st EXCEPT
                                             !.disk = Extract(st.disk, ar, name, dst, now),
                                             !.db = up.db]
                                     ELSE [st EXCEPT
                                             !.disk = Extract(st.disk, ar, name, dst, now),
                                             !.status = ExtractStatus(ar, name)],
                                    IF r # {} THEN (CHOOSE i \in r : TRUE).id ELSE up.value>> :
                                    up \in {upsert_image(st.db, dst, im.sha256,
                                                         im.created_at)}}}} : TRUE
         : st \in {st0}} : TRUE

RECURSIVE import_tags(_, _)
import_tags(d, ts) ==
    IF ts = <<>> THEN d
    ELSE import_tags(upsert_tag(d, Head(ts).name, Head(ts).category).db, Tail(ts))

\* the whole handler: it returns when manifest.json cannot be read; else the
\* users, tags and images of the manifest, then reload_all() when no call
\* raised; result [db, disk, items, status]
import_archive(d, fs, its, ar, now) ==
    IF ~ar.manifest
    THEN [db |-> d, disk |-> fs, items |-> its, status |-> "manifest"]
    ELSE CHOOSE res \in
           {IF st.status = "ok"
            THEN CHOOSE x \in
                   {[db |-> sc.db, disk |-> st.disk, items |-> sc.items, maps |-> sc.maps,
                     status |-> "ok"] : sc \in {reload_all(st.db, st.disk)}} : TRUE
            ELSE [db |-> st.db, disk |-> st.disk, items |-> its, status |-> st.status] :
              st \in {import_images([db |-> import_tags(ensure_user(d, ar.username).db, ar.tags),
                                     disk |-> fs, status |-> "ok"], ar, ar.images, now)}} : TRUE

----------------------------------------------------------------------------
(* MainWindow.attach_csv_paths *)

\* dst.stem + " (copy)"
CopyStem(parts) == [parts EXCEPT ![Len(parts)] = @ \o " (copy)"]

\* one dropped path for one selected item, st = [db, disk].  src.outside: the
\* path does not start with the root and the file src is copied next to the
\* image; otherwise src.path is taken as it is.  Any exception (copy of an
\* unreadable file, hash of a missing file, rejected INSERT) skips the path.
attach_csv_path(st, it, src) ==
    LET named == Path(it.path[1], src.path[2], src.path[3])
        dst == IF Exists(st.disk, named)
               THEN Path(it.path[1], CopyStem(src.path[2]), src.path[3])
               ELSE named
        csv_abs == IF src.outside THEN dst ELSE src.path
        fs == IF src.outside
              THEN WriteTo(st.disk, [path |-> dst, sha256 |-> src.sha256,
                                     mtime |-> src.mtime, readable |-> TRUE])
              ELSE st.disk
    IN  IF src.outside /\ ~src.readable THEN st
        ELSE IF ~Exists(fs, csv_abs) THEN st
        ELSE IF ~FileAt(fs, csv_abs).readable THEN st
        ELSE [db |-> upsert_attachment(st.db, it.image_id, "csv", csv_abs,
                                       FileAt(fs, csv_abs).sha256,
                                       FileAt(fs, csv_abs).mtime).db,
              disk |-> fs]

\* for it in items: for p in paths
RECURSIVE attach_csv_paths(_, _, _, _)
attach_csv_paths(st, its, sel, srcs) ==
    IF sel = <<>> THEN st
    ELSE LET RECURSIVE each(_, _)
             each(s, ps) == IF ps = <<>> THEN s
                            ELSE each(attach_csv_path(s, its[Head(sel)], Head(ps)), Tail(ps))
         IN  attach_csv_paths(each(st, srcs), its, Tail(sel), srcs)

----------------------------------------------------------------------------
(* Calls: one action per DB method *)

Return(op, r) == [op |-> op, status |-> r.status, value |-> r.value]

\* a direct call of a DB method leaves the files, the list and the zip alone
EnsureUser(username) ==
    LET r == ensure_user(DBState, username)
    IN  SetDB(r.db) /\ ret' = Return("ensure_user", r) /\ UNCHANGED <<disk, items, index, hidden, query, archive, filedb>>

UpsertImage(rel_path, sha256, created_at) ==
    LET r == upsert_image(DBState, rel_path, sha256, created_at)
    IN  SetDB(r.db) /\ ret' = Return("upsert_image", r) /\ UNCHANGED <<disk, items, index, hidden, query, archive, filedb>>

UpsertTag(name, category) ==
    LET r == upsert_tag(DBState, name, category)
    IN  SetDB(r.db) /\ ret' = Return("upsert_tag", r) /\ UNCHANGED <<disk, items, index, hidden, query, archive, filedb>>

AddTagForUser(image_id, tag_name, user_id, category, now) ==
    LET r == add_tag_for_user(DBState, image_id, tag_name, user_id, category, now)
    IN  SetDB(r.db) /\ ret' = Return("add_tag_for_user", r) /\ UNCHANGED <<disk, items, index, hidden, query, archive, filedb>>

RemoveTagForUser(image_id, tag_name, user_id, category, now) ==
    LET r == remove_tag_for_user(DBState, image_id, tag_name, user_id, category, now)
    IN  SetDB(r.db) /\ ret' = Return("remove_tag_for_user", r) /\ UNCHANGED <<disk, items, index, hidden, query, archive, filedb>>

UpsertQuality(image_id, user_id, label, score, when, now) ==
    LET r == upsert_quality(DBState, image_id, user_id, label, score, when, now)
    IN  SetDB(r.db) /\ ret' = Return("upsert_quality", r) /\ UNCHANGED <<disk, items, index, hidden, query, archive, filedb>>

UpsertAttachment(image_id, kind, rel_path, sha256, created_at) ==
    LET r == upsert_attachment(DBState, image_id, kind, rel_path, sha256, created_at)
    IN  SetDB(r.db) /\ ret' = Return("upsert_attachment", r) /\ UNCHANGED <<disk, items, index, hidden, query, archive, filedb>>

\* a DELETE statement run on the library's connection
DeleteImage(image_id) ==
    LET r == delete_image(DBState, image_id)
    IN  SetDB(r.db) /\ ret' = Return("delete_image", r) /\ UNCHANGED <<disk, items, index, hidden, query, archive, filedb>>

Done(op, status) == [op |-> op, status |-> status, value |-> NoValue]

(* Handlers of MainWindow *)

\* MainWindow.__init__: ensure_user(self.username) and reload_all()
Opened(d, fs, username) == reload_all(ensure_user(d, username).db, fs)

ReloadAll ==
    LET r == reload_all(DBState, disk)
    IN  /\ SetDB(r.db)
        /\ items' = r.items
        /\ index' = r.maps
        /\ hidden' = {}
        /\ query' = query
        /\ ret' = Done("reload_all", "ok")
        /\ UNCHANGED <<disk, archive, filedb>>

\* sel: the selected items; with no selection the handler returns
AttachCsvPaths(sel, srcs) ==
    LET r == attach_csv_paths([db |-> DBState, disk |-> disk], items, sel, srcs)
    IN  /\ SetDB(r.db)
        /\ disk' = r.disk
        /\ ret' = Done("attach_csv_paths", "ok")
        /\ UNCHANGED <<items, index, hidden, query, archive, filedb>>

ExportSelection(sel, username) ==
    LET r == export_selection(DBState, disk, items, sel, username)
    IN  /\ archive' = IF sel = <<>> THEN archive ELSE r.archive
        /\ ret' = Done("export_selection", r.status)
        /\ UNCHANGED <<storeVars, disk, items, index, hidden, query, filedb>>

\* the zip chosen in the file dialog is the one in archive
ImportArchive(now) ==
    /\ archive.written
    /\ LET r == import_archive(DBState, disk, items, archive, now)
       IN  /\ SetDB(r.db)
           /\ disk' = r.disk
           /\ items' = r.items
           /\ index' = IF r.status = "ok" THEN r.maps ELSE index
           /\ hidden' = IF r.status = "ok" THEN {} ELSE hidden
           /\ query' = query
           /\ ret' = Done("import_archive", r.status)
    /\ UNCHANGED <<archive, filedb>>

\* self.user_id: the row of the user of the session
self_user_id == (CHOOSE u \in users : u.username = "alice").id

\* for it in items: add_tag_for_user, an IntegrityError is reported and the
\* loop goes on (with what the failed call has committed)
RECURSIVE add_tag_each(_, _, _, _, _, _)
add_tag_each(d, its, sel, tag, uid, cat) ==
    IF sel = <<>> THEN d
    ELSE add_tag_each(add_tag_for_user(d, its[Head(sel)].image_id, tag, uid, cat, 1).db,
                      its, Tail(sel), tag, uid, cat)

\* add_tag_clicked: text is the tag input, cat the category chosen.  The maps
\* of on_search are not written; the search is run again when its text
\* starts with "#"
AddTagClicked(sel, text, cat) ==
    IF sel = <<>> \/ strip(text) = ""
    THEN /\ ret' = Done("add_tag_clicked", "none")
         /\ UNCHANGED <<storeVars, disk, items, index, hidden, query, archive, filedb>>
    ELSE /\ SetDB(add_tag_each(DBState, items, sel, strip(text), self_user_id, cat))
         /\ hidden' = IF query # <<>> /\ query[1].pre = "#"
                      THEN on_search(items, index, query) ELSE hidden
         /\ ret' = Done("add_tag_clicked", "ok")
         /\ UNCHANGED <<disk, items, index, query, archive, filedb>>

RECURSIVE remove_tag_each(_, _, _, _, _, _)
remove_tag_each(d, its, sel, tag, uid, cat) ==
    IF sel = <<>> THEN d
    ELSE remove_tag_each(remove_tag_for_user(d, its[Head(sel)].image_id, tag, uid, cat, 1).db,
                         its, Tail(sel), tag, uid, cat)

\* del_tag_clicked: row is the entry chosen in the tag list of the right
\* panel, which shows the active tags of the item selected last
DelTagClicked(sel, row) ==
    IF sel = <<>>
    THEN /\ ret' = Done("del_tag_clicked", "none")
         /\ UNCHANGED <<storeVars, disk, items, index, hidden, query, archive, filedb>>
    ELSE /\ SetDB(remove_tag_each(DBState, items, sel, strip(row.name), self_user_id,
                                  row.category))
         /\ hidden' = IF query # <<>> /\ query[1].pre = "#"
                      THEN on_search(items, index, query) ELSE hidden
         /\ ret' = Done("del_tag_clicked", "ok")
         /\ UNCHANGED <<disk, items, index, query, archive, filedb>>

RECURSIVE vote_each(_, _, _, _, _)
vote_each(d, its, sel, uid, label) ==
    IF sel = <<>> THEN d
    ELSE vote_each(upsert_quality(d, its[Head(sel)].image_id, uid, label, NULL, NULL, 1).db,
                   its, Tail(sel), uid, label)

\* vote_quality(label)
VoteQuality(sel, label) ==
    IF sel = <<>> \/ label \notin {"good", "review", "bad"}
    THEN /\ ret' = Done("vote_quality", "none")
         /\ UNCHANGED <<storeVars, disk, items, index, hidden, query, archive, filedb>>
    ELSE /\ SetDB(vote_each(DBState, items, sel, self_user_id, label))
         /\ ret' = Done("vote_quality", "ok")
         /\ UNCHANGED <<disk, items, index, hidden, query, archive, filedb>>

\* the text of the search box is edited (textChanged -> on_search)
OnSearch(q) ==
    /\ query' = q
    /\ hidden' = on_search(items, index, q)
    /\ ret' = Done("on_search", "ok")
    /\ UNCHANGED <<storeVars, disk, items, index, archive, filedb>>

\* the environment creates or replaces a file under the root
WriteFile(f) ==
    /\ disk' = WriteTo(disk, f)
    /\ UNCHANGED <<storeVars, items, index, hidden, query, archive, filedb, ret>>

NoCall == [op |-> "none", status |-> "ok", value |-> NoValue]

\* scripts/init_db.py on a new file: every table empty
Init ==
    /\ users = {}
    /\ images = {}
    /\ tags = {}
    /\ annotations = EmptyBag
    /\ quality_votes = {}
    /\ attachments = {}
    /\ disk = {}
    /\ items = <<>>
    /\ index = <<>>
    /\ hidden = {}
    /\ query = <<>>
    /\ archive = NoArchive
    /\ filedb = EmptyFileDB
    /\ ret = NoCall

----------------------------------------------------------------------------
(* Spec: the tagging calls of class DB on a new store.  Two usernames, one  *)
(* image file, the tag name "t1" without a category and under "condition".  *)
(* The image and user ids passed to add/remove include ids of no row.       *)

Usernames == {"alice", "bob"}
TagKeys == {<<"t1", "">>, <<"t1", "condition">>}
ImageIdArgs == 1..2
UserIdArgs == 1..3

Next ==
    \/ \E n \in Usernames : EnsureUser(n)
    \/ UpsertImage(Path("", <<"a">>, ".png"), "s1", 1)
    \/ \E k \in TagKeys : UpsertTag(k[1], k[2])
    \/ \E i \in ImageIdArgs, k \in TagKeys, u \in UserIdArgs, now \in Times :
          AddTagForUser(i, k[1], u, k[2], now)
    \/ \E i \in ImageIdArgs, k \in TagKeys, u \in UserIdArgs, now \in Times :
          RemoveTagForUser(i, k[1], u, k[2], now)

Spec == Init /\ [][Next]_vars

\* the (image_id, tag_id, user_id) of the rows of the annotations table
Triples == {<<a.image_id, a.tag_id, a.user_id>> : a \in BagToSet(annotations)}

\* the number of rows of the annotations table with the triple
RowCount(anns, tr) ==
    BagCardinality([a \in {x \in BagToSet(anns) :
                              <<x.image_id, x.tag_id, x.user_id>> = tr} |-> anns[a]])

\* C5: the annotations table holds at most one row for each (image, tag, user),
\* and once a row exists for a triple every add and remove keeps exactly one
\* row for it (changing its is_deleted flag and timestamp only).
C5_OneRowPerTriple ==
    /\ [](\A tr \in Triples : RowCount(annotations, tr) = 1)
    /\ [][\A tr \in Triples : RowCount(annotations', tr) = 1]_vars

\* an add has completed on a store that holds an active row stamped with the
\* latest time and a soft-deleted row: adds and a remove have acted
C5_Witness ==
    /\ ret.op = "add_tag_for_user" /\ ret.status = "ok"
    /\ \E a \in BagToSet(annotations) : a.is_deleted = 0 /\ a.created_at = MaxTime
    /\ \E a \in BagToSet(annotations) : a.is_deleted = 1

\* C11: a call of add_tag_for_user that is rejected leaves every table, tags
\* included, as it was before the call, also when the tag did not exist.
C11_RejectedAddNoEffect ==
    \A i \in ImageIdArgs, k \in TagKeys, u \in UserIdArgs, now \in Times :
        LET r == add_tag_for_user(DBState, i, k[1], u, k[2], now)
        IN  r.status # "ok" => r.db = DBState

\* C15: remove_tag_for_user completes; when the store has a row for (image,
\* tag(name, category), user) the row is kept with is_deleted = 1; when it has
\* none, or no such tag, the store is unchanged; no tag is created and the
\* rows of other triples stay as they are.
C15_RemoveSoftDeletes ==
    \A i \in ImageIdArgs, k \in TagKeys, u \in UserIdArgs, now \in Times :
        LET r == remove_tag_for_user(DBState, i, k[1], u, k[2], now)
            tg == {t \in tags : t.name = k[1] /\ t.category = k[2]}
            rows == {a \in BagToSet(annotations) :
                        /\ a.image_id = i /\ a.user_id = u
                        /\ \E t \in tg : a.tag_id = t.id}
        IN  /\ r.status = "ok"
            /\ r.db.tags = tags /\ r.db.users = users /\ r.db.images = images
            /\ r.db.quality_votes = quality_votes /\ r.db.attachments = attachments
            /\ rows = {} => r.db = DBState
            /\ \A a \in rows :
                  /\ RowCount(r.db.annotations, <<a.image_id, a.tag_id, a.user_id>>) = 1
                  /\ \E b \in BagToSet(r.db.annotations) :
                        /\ <<b.image_id, b.tag_id, b.user_id>>
                               = <<a.image_id, a.tag_id, a.user_id>>
                        /\ b.is_deleted = 1
            /\ \A a \in BagToSet(annotations) \ rows :
                  CopiesIn(a, r.db.annotations) = CopiesIn(a, annotations)
            /\ BagCardinality(r.db.annotations) = BagCardinality(annotations)

\* a remove has completed; one row is soft-deleted while a row of another
\* triple is active, and a tag exists that has no row (a remove naming it
\* changes nothing)
C15_Witness ==
    /\ ret.op = "remove_tag_for_user" /\ ret.status = "ok"
    /\ \E a, b \in BagToSet(annotations) :
          /\ a.is_deleted = 1 /\ b.is_deleted = 0
          /\ <<a.image_id, a.tag_id, a.user_id>> # <<b.image_id, b.tag_id, b.user_id>>
    /\ \E t \in tags : \A a \in BagToSet(annotations) : a.tag_id # t.id

\* C16: no two tag rows share (name, category); upsert_tag returns the id of
\* the row of its pair, a repeated call returns the same id and changes
\* nothing, and the same name under another category has another id.
C16_UpsertTagGetOrCreate ==
    /\ \A s, t \in tags : (s.name = t.name /\ s.category = t.category) => s = t
    /\ \A k \in TagKeys :
          LET r1 == upsert_tag(DBState, k[1], k[2])
              r2 == upsert_tag(r1.db, k[1], k[2])
          IN  /\ r1.status = "ok" /\ r2.status = "ok"
              /\ r2.value = r1.value /\ r2.db = r1.db
              /\ {t.id : t \in {x \in r1.db.tags : x.name = k[1] /\ x.category = k[2]}}
                     = {r1.value}
              /\ \A t \in tags : t \in r1.db.tags
              /\ \A k2 \in TagKeys \ {k} :
                    upsert_tag(r1.db, k2[1], k2[2]).value # r1.value

\* "t1" exists without a category and under "condition", and the latest
\* upsert_tag returned the id of the older row
C16_Witness ==
    /\ ret.op = "upsert_tag" /\ ret.status = "ok"
    /\ Cardinality(tags) = 2
    /\ \A s, t \in tags : s.name = t.name
    /\ ret.value = 1

----------------------------------------------------------------------------
(* SpecRows: the rows that hang on an image.  The library of one user;      *)
(* images and attachments are upserted under two digests and two paths      *)
(* each, with image ids that include ids of no row; images are tagged,      *)
(* voted on and deleted.                                                    *)

RowPaths == {Path("", <<"a">>, ".png"), Path("", <<"b">>, ".png")}
RowShas == {"s1", "s2"}
RowImageArgs == 1..3
AttPaths == {Path("", <<"a">>, ".csv"), Path("", <<"x">>, ".csv")}
AttShas == {"c1", "c2"}
AttKinds == {"csv", "json"}

InitRows ==
    /\ users = {[id |-> 1, username |-> "alice"]}
    /\ images = {}
    /\ tags = {}
    /\ annotations = EmptyBag
    /\ quality_votes = {}
    /\ attachments = {}
    /\ disk = {}
    /\ items = <<>>
    /\ index = <<>>
    /\ hidden = {}
    /\ query = <<>>
    /\ archive = NoArchive
    /\ filedb = EmptyFileDB
    /\ ret = NoCall

\* deleted ids are not given again while a higher id is stored, so the ids
\* grow with every delete and insert: an insert is taken while the next id
\* is at most MaxRowId
NextRows ==
    \/ \E p \in RowPaths, s \in RowShas :
          /\ (\E i \in images : i.sha256 = s) \/ lastrowid(images) <= MaxRowId
          /\ UpsertImage(p, s, 1)
    \/ \E i \in RowImageArgs, p \in AttPaths, s \in AttShas :
          /\ (\E a \in attachments : a.sha256 = s) \/ lastrowid(attachments) <= MaxRowId
          /\ UpsertAttachment(i, "csv", p, s, 1)
    \/ \E i \in RowImageArgs : AddTagForUser(i, "t1", 1, "", 1)
    \/ \E i \in RowImageArgs :
          /\ lastrowid(quality_votes) <= MaxRowId
          /\ UpsertQuality(i, 1, "good", NULL, NULL, 1)
    \/ \E i \in RowImageArgs : DeleteImage(i)

SpecRows == InitRows /\ [][NextRows]_vars

\* C13: upsert_image with the digest of a stored image returns the id of
\* that row, sets its rel_path to the path given and inserts no row; with a
\* new digest it inserts exactly one row and returns its new id.  No other
\* image row, and no row of another table, changes.
C13_UpsertImageByDigest ==
    \A p \in RowPaths, s \in RowShas, t \in Times :
        LET r == upsert_image(DBState, p, s, t)
            old == {i \in images : i.sha256 = s}
        IN  /\ r.status = "ok"
            /\ [r.db EXCEPT !.images = images] = DBState
            /\ IF old # {}
               THEN \E row \in old :
                       /\ r.value = row.id
                       /\ r.db.images = (images \ {row}) \cup {[row EXCEPT !.rel_path = p]}
                       /\ Cardinality(r.db.images) = Cardinality(images)
               ELSE /\ r.value \notin Ids(images)
                    /\ r.db.images = images \cup
                          {[id |-> r.value, rel_path |-> p, sha256 |-> s, created_at |-> t]}
                    /\ Cardinality(r.db.images) = Cardinality(images) + 1

\* upsert_image has returned the id of the older of two image rows: it found
\* that row by its digest (an INSERT returns the highest id)
C13_Witness ==
    /\ ret.op = "upsert_image" /\ ret.status = "ok"
    /\ \E i, j \in images : i.id = ret.value /\ j.id > i.id

LinksKept ==
    \A a \in attachments : \A b \in attachments' :
        b.sha256 = a.sha256 => b.id = a.id /\ b.image_id = a.image_id

\* C14: upsert_attachment with the digest of a stored attachment returns the
\* id of that row and changes nothing, whatever image id, kind and path it is
\* called with; a digest that stays in the store stays linked to its image.
C14_NeverRelinks ==
    /\ [](\A i \in RowImageArgs, k \in AttKinds, p \in AttPaths, s \in AttShas, t \in Times :
            LET r == upsert_attachment(DBState, i, k, p, s, t)
                old == {a \in attachments : a.sha256 = s}
            IN  old # {} =>
                  /\ r.status = "ok"
                  /\ r.db = DBState
                  /\ \E a \in old : r.value = a.id)
    /\ [][LinksKept]_vars

\* upsert_attachment has returned the id of a stored attachment, found by its
\* digest: the row returned is the older of two (an INSERT returns the highest
\* id), and two images are stored
C14_Witness ==
    /\ ret.op = "upsert_attachment" /\ ret.status = "ok"
    /\ \E a, b \in attachments : a.id = ret.value /\ b.id > a.id
    /\ Cardinality(images) = 2

ReferencesHold ==
    /\ \A a \in attachments : a.image_id \in Ids(images)
    /\ \A q \in quality_votes : q.image_id \in Ids(images)
    /\ \A a \in AnnRows(DBState) : a.image_id \in Ids(images)

\* C17: every attachment, annotation and quality vote row references a
\* stored image; an insert for an image id of no row is rejected and adds no
\* such row; deleting an image removes exactly the attachments, annotations
\* and quality votes of that image.
C17_ReferentialIntegrity ==
    /\ ReferencesHold
    /\ \A i \in RowImageArgs : i \notin Ids(images) =>
          /\ \A k \in AttKinds, p \in AttPaths, s \in AttShas \ {a.sha256 : a \in attachments} :
                LET r == upsert_attachment(DBState, i, k, p, s, 1)
                IN  r.status # "ok" /\ r.db = DBState
          /\ LET r == upsert_quality(DBState, i, 1, "good", NULL, NULL, 1)
             IN  r.status # "ok" /\ r.db = DBState
          /\ LET r == add_tag_for_user(DBState, i, "t1", 1, "", 1)
             IN  r.status # "ok" /\ r.db.annotations = annotations
    /\ \A i \in RowImageArgs :
          LET r == delete_image(DBState, i).db
          IN  /\ r.images = {x \in images : x.id # i}
              /\ r.attachments = {a \in attachments : a.image_id # i}
              /\ r.quality_votes = {q \in quality_votes : q.image_id # i}
              /\ \A a \in AnnRows(DBState) :
                    CopiesIn(a, r.annotations) = IF a.image_id = i THEN 0 ELSE CopiesIn(a, annotations)
              /\ r.users = users /\ r.tags = tags

\* image 1 has been deleted with its attachment (the attachment of id 1 is
\* gone), and image 2 still has its attachment, annotation and vote
C17_Witness ==
    /\ ret.op = "delete_image"
    /\ Ids(images) = {2}
    /\ Ids(attachments) = {2}
    /\ quality_votes # {}
    /\ annotations # EmptyBag

----------------------------------------------------------------------------
(* SpecVotes: quality votes.  Two users and one image are registered; the   *)
(* image ids passed include the id of no row, the labels one that is not a  *)
(* quality label, and `when` may be omitted (NULL).                         *)

VoteImageArgs == 1..2
VoteUserArgs == 1..2
VoteLabels == QUALITY_LABELS \cup {"great"}
VoteScores == {NULL, 1}
VoteWhens == Times \cup {NULL}

InitVotes ==
    /\ users = {[id |-> 1, username |-> "alice"], [id |-> 2, username |-> "bob"]}
    /\ images = {[id |-> 1, rel_path |-> Path("", <<"a">>, ".png"), sha256 |-> "s1", created_at |-> 1]}
    /\ tags = {}
    /\ annotations = EmptyBag
    /\ quality_votes = {}
    /\ attachments = {}
    /\ disk = {}
    /\ items = <<>>
    /\ index = <<>>
    /\ hidden = {}
    /\ query = <<>>
    /\ archive = NoArchive
    /\ filedb = EmptyFileDB
    /\ ret = NoCall

NextVotes ==
    \E i \in VoteImageArgs, u \in VoteUserArgs, l \in VoteLabels, s \in VoteScores,
       w \in VoteWhens, now \in Times :
        /\ lastrowid(quality_votes) <= MaxVoteId
        /\ UpsertQuality(i, u, l, s, w, now)

SpecVotes == InitVotes /\ [][NextVotes]_vars

VotesOf(votes, i, u) == {q \in votes : q.image_id = i /\ q.user_id = u}

\* C10: quality_votes holds at most one row for each (image, user), and an
\* upsert_quality call that completes leaves exactly one row for its pair,
\* carrying the label, score and timestamp of that call, and leaves the rows
\* of every other pair as they were.
C10_QualityVoteReplace ==
    /\ \A q1, q2 \in quality_votes :
          (q1.image_id = q2.image_id /\ q1.user_id = q2.user_id) => q1 = q2
    /\ \A i \in VoteImageArgs, u \in VoteUserArgs, l \in VoteLabels, s \in VoteScores,
          w \in VoteWhens, now \in Times :
          LET r == upsert_quality(DBState, i, u, l, s, w, now)
              after == r.db.quality_votes
          IN  r.status = "ok" =>
                /\ \E q \in after :
                      /\ VotesOf(after, i, u) = {q}
                      /\ q.label = l /\ q.score = s
                      /\ q.created_at = IF w = NULL THEN now ELSE w
                /\ after \ VotesOf(after, i, u)
                      = quality_votes \ VotesOf(quality_votes, i, u)

\* a user has voted "good" and then "bad" on an image (the row's id shows the
\* replacement) while the other user's vote stands
C10_Witness ==
    /\ ret.op = "upsert_quality" /\ ret.status = "ok"
    /\ \E q1, q2 \in quality_votes :
          /\ q1.user_id # q2.user_id
          /\ q1.id > Cardinality(quality_votes)
          /\ q1.label = "bad" /\ q2.label = "good"

----------------------------------------------------------------------------
(* SpecCap: the annotator cap.  One image, NumCapUsers users and two tags,  *)
(* all registered already; every user adds and removes tag "t1", and the   *)
(* first two users tag "t2" as well.                                       *)

CapUsers == 1..NumCapUsers
CapImage == 1
CapCalls == {<<u, "t1">> : u \in CapUsers} \cup {<<u, "t2">> : u \in 1..2}

InitCap ==
    /\ users = {[id |-> u, username |-> "u" \o ToString(u)] : u \in CapUsers}
    /\ images = {[id |-> CapImage, rel_path |-> Path("", <<"a">>, ".png"), sha256 |-> "s1", created_at |-> 1]}
    /\ tags = {[id |-> 1, name |-> "t1", category |-> ""],
               [id |-> 2, name |-> "t2", category |-> ""]}
    /\ annotations = EmptyBag
    /\ quality_votes = {}
    /\ attachments = {}
    /\ disk = {[path |-> Path("", <<"a">>, ".png"), sha256 |-> "s1", mtime |-> 1,
                readable |-> TRUE]}
    /\ items = <<[path |-> Path("", <<"a">>, ".png"), image_id |-> CapImage]>>
    /\ index = (CapImage :> [tags_lower |-> {}, cats |-> {}, users |-> {}, labels |-> {},
                             has_csv |-> FALSE, created_at |-> 1])
    /\ hidden = {}
    /\ query = <<>>
    /\ archive = NoArchive
    /\ filedb = EmptyFileDB
    /\ ret = NoCall

CapAdd(u, t) == AddTagForUser(CapImage, t, u, "", 1)
CapRemove(u, t) == RemoveTagForUser(CapImage, t, u, "", 1)

NextCap ==
    \/ \E c \in CapCalls : CapAdd(c[1], c[2])
    \/ \E c \in CapCalls : CapRemove(c[1], c[2])

SpecCap == InitCap /\ [][NextCap]_vars

\* the rows of (image, tag name, category, user) in the current store
RowsOf(image_id, tag_name, category, user_id) ==
    {a \in BagToSet(annotations) :
        /\ a.image_id = image_id
        /\ a.user_id = user_id
        /\ \E t \in tags : t.id = a.tag_id /\ t.name = tag_name /\ t.category = category}

RowsOfUser(image_id, user_id) ==
    {a \in BagToSet(annotations) : a.image_id = image_id /\ a.user_id = user_id}

NumAnnotators(image_id) == Cardinality(ActiveAnnotators(DBState, image_id))

\* C31: add_tag_for_user is idempotent on an active triple: for every
\* annotation row with is_deleted = 0, calling add_tag_for_user again with
\* the row's image, the name and category of its tag and its user, at any
\* time, succeeds and leaves every table as it was, the row's created_at
\* included.
C31_AddIdempotentOnActive ==
    \A a \in {x \in AnnRows(DBState) : x.is_deleted = 0} :
        \A t \in {x \in tags : x.id = a.tag_id} :
            \A now \in Times :
                \A r \in {add_tag_for_user(DBState, a.image_id, t.name, a.user_id,
                                           t.category, now)} :
                    /\ r.status = "ok"
                    /\ r.db = DBState

\* an add has just succeeded, the image is at the annotator cap and one of
\* its annotators holds two active rows
C31_Witness ==
    /\ ret.op = "add_tag_for_user"
    /\ ret.status = "ok"
    /\ NumAnnotators(CapImage) >= MaxAnnotators
    /\ \E u \in CapUsers :
           Cardinality({a \in RowsOfUser(CapImage, u) : a.is_deleted = 0}) = 2

\* C1: every image has at most 5 distinct users holding an active
\* (is_deleted = 0) annotation row.
C1_AnnotatorCap ==
    \A i \in images : NumAnnotators(i.id) <= MaxAnnotators

\* the result of add_tag_for_user(image, t, u) in the current store
CapAddResult(u, t) == add_tag_for_user(DBState, CapImage, t, u, "", 1)

\* the triple's row is active in the annotations of store d
ActiveIn(d, image_id, tag_name, category, user_id) ==
    \E a \in BagToSet(d.annotations) :
        /\ a.image_id = image_id /\ a.user_id = user_id /\ a.is_deleted = 0
        /\ \E tg \in d.tags : tg.id = a.tag_id /\ tg.name = tag_name /\ tg.category = category

\* C2: an add_tag_for_user by a user who has no row on the image succeeds and
\* leaves the row active while the image has fewer than 5 distinct active
\* annotators (the first five adds on an empty image, and the sixth user's add
\* after one of the five was soft-deleted), and is rejected with an integrity
\* error, the annotations unchanged, when it has 5.
C2_CapSequence ==
    \A c \in CapCalls :
        LET u == c[1]
            t == c[2]
            r == CapAddResult(u, t)
        IN  RowsOfUser(CapImage, u) = {} =>
              /\ NumAnnotators(CapImage) < MaxAnnotators =>
                    r.status = "ok" /\ ActiveIn(r.db, CapImage, t, "", u)
              /\ NumAnnotators(CapImage) = MaxAnnotators =>
                    r.status = "IntegrityError" /\ r.db.annotations = annotations

\* the sixth user's add has succeeded after a soft-delete freed a place: five
\* active annotators, one user left with a soft-deleted row only
C2_Witness ==
    /\ ret.op = "add_tag_for_user" /\ ret.status = "ok"
    /\ NumAnnotators(CapImage) = MaxAnnotators
    /\ BagCardinality(annotations) = MaxAnnotators + 1
    /\ \E a \in BagToSet(annotations) :
           a.is_deleted = 1 /\ a.user_id \notin ActiveAnnotators(DBState, CapImage)

\* C3: add_tag_for_user by a user who holds an active annotation on the image,
\* with a tag that user has not applied to it, succeeds.
C3_ExtraTagNeverTripsCap ==
    \A c \in CapCalls :
        (/\ c[1] \in ActiveAnnotators(DBState, CapImage)
         /\ RowsOf(CapImage, c[2], "", c[1]) = {})
            => CapAddResult(c[1], c[2]).status = "ok"

\* C4: add_tag_for_user on a triple whose row exists with is_deleted = 1
\* succeeds, leaves that row active and inserts no row, whatever the number of
\* active annotators of the image.
C4_ReactivationNeverTripsCap ==
    \A c \in CapCalls :
        LET u == c[1]
            t == c[2]
            r == CapAddResult(u, t)
        IN  (\E a \in RowsOf(CapImage, t, "", u) : a.is_deleted = 1) =>
              /\ r.status = "ok"
              /\ BagCardinality(r.db.annotations) = BagCardinality(annotations)
              /\ ActiveIn(r.db, CapImage, t, "", u)

\* a reactivation has gone through on an image that had 5 active annotators
C4_Witness ==
    /\ ret.op = "add_tag_for_user" /\ ret.status = "ok"
    /\ NumAnnotators(CapImage) = MaxAnnotators + 1

\* the non-empty selections of the list: item indices in list order
Selections(its) ==
    {SortedSeq(S, [i \in S |-> i]) : S \in (SUBSET (1..Len(its))) \ {{}}}

SelectedImages(d, its, sel) ==
    {i \in d.images : \E k \in 1..Len(sel) : its[sel[k]].image_id = i.id}

ActiveCount(d, image_ids) ==
    BagCardinality([a \in {x \in AnnRows(d) : x.image_id \in image_ids /\ x.is_deleted = 0}
                       |-> d.annotations[a]])

\* export_selection of sel by the first user, imported into a new, empty library
RoundTrip(sel) ==
    import_archive(EmptyDB, {}, <<>>,
                   export_selection(DBState, disk, items, sel, "u1").archive, MaxTime)

\* C8: for every selection of images of the store, exporting it and importing
\* the bundle into a new empty store completes, and the new store holds as
\* many images, attachments, (active) annotations and quality votes as the
\* selection has in the source store.
C8_RoundTripCounts ==
    \A sel \in Selections(items) :
        LET ids == Ids(SelectedImages(DBState, items, sel))
            r == RoundTrip(sel)
        IN  /\ r.status = "ok"
            /\ Cardinality(r.db.images) = Cardinality(ids)
            /\ Cardinality(r.db.attachments)
                   = Cardinality({a \in attachments : a.image_id \in ids})
            /\ ActiveCount(r.db, Ids(r.db.images)) = ActiveCount(DBState, ids)
            /\ Cardinality(r.db.quality_votes)
                   = Cardinality({q \in quality_votes : q.image_id \in ids})

----------------------------------------------------------------------------
(* SpecIngest: files appear under the root of a new library and are scanned, *)
(* CSV files are attached by hand, rows are upserted directly, and a bundle  *)
(* exported by another library is imported.                                  *)

File(dir, stem, ext, sha256, mtime, readable) ==
    [path |-> Path(dir, stem, ext), sha256 |-> sha256, mtime |-> mtime, readable |-> readable]

\* the files the environment writes: a.png, its content again as sub/a.PNG,
\* and a.csv
Catalogue ==
    {File("", <<"a">>, ".png", "s1", 1, TRUE),
     File("sub", <<"a">>, ".PNG", "s1", 2, TRUE),
     File("", <<"a">>, ".csv", "c1", 1, TRUE)}

\* the paths dropped on the window: a.csv of the library, and x.csv from
\* outside the root
Dropped ==
    {[outside |-> FALSE, path |-> Path("", <<"a">>, ".csv"), sha256 |-> "", mtime |-> 1,
      readable |-> TRUE],
     [outside |-> TRUE, path |-> Path("", <<"x">>, ".csv"), sha256 |-> "c2", mtime |-> 2,
      readable |-> TRUE]}

\* the library the imported bundle comes from: bob's images b.png (with b.csv,
\* which has the content of a.csv, a tag and a vote) and c.png (content of a.png)
SampleDB ==
    [users |-> {[id |-> 1, username |-> "bob"]},
     images |-> {[id |-> 1, rel_path |-> Path("", <<"b">>, ".png"), sha256 |-> "s3",
                  created_at |-> 1],
                 [id |-> 2, rel_path |-> Path("", <<"c">>, ".png"), sha256 |-> "s1",
                  created_at |-> 1]},
     tags |-> {[id |-> 1, name |-> "t1", category |-> ""]},
     annotations |-> SetToBag({[image_id |-> 1, tag_id |-> 1, user_id |-> 1,
                                created_at |-> 1, is_deleted |-> 0]}),
     quality_votes |-> {[id |-> 1, image_id |-> 1, user_id |-> 1, label |-> "good",
                         score |-> NULL, created_at |-> 1]},
     attachments |-> {[id |-> 1, image_id |-> 1, kind |-> "csv",
                       rel_path |-> Path("", <<"b">>, ".csv"), sha256 |-> "c1",
                       created_at |-> 1]}]

SampleDisk ==
    {File("", <<"b">>, ".png", "s3", 1, TRUE), File("", <<"c">>, ".png", "s1", 1, TRUE),
     File("", <<"b">>, ".csv", "c1", 1, TRUE)}

SampleItems ==
    <<[path |-> Path("", <<"b">>, ".png"), image_id |-> 1],
      [path |-> Path("", <<"c">>, ".png"), image_id |-> 2]>>

SampleArchive == export_selection(SampleDB, SampleDisk, SampleItems, <<1, 2>>, "bob").archive

\* the same bundle exported after b.png, or b.csv, was removed from bob's
\* disk (the manifest lists it, the zip has no member for it), and the bundle
\* with a manifest.json that does not parse
SampleWithout(stem, ext) ==
    export_selection(SampleDB, {f \in SampleDisk : f.path # Path("", stem, ext)},
                     SampleItems, <<1, 2>>, "bob").archive
BadManifest == [SampleArchive EXCEPT !.manifest = FALSE]
IngestArchives ==
    {SampleArchive, SampleWithout(<<"b">>, ".png"), SampleWithout(<<"b">>, ".csv"), BadManifest}

\* MainWindow.__init__ on a new library: the user of the session, an empty scan
InitIngest ==
    /\ users = {[id |-> 1, username |-> "alice"]}
    /\ images = {}
    /\ tags = {}
    /\ annotations = EmptyBag
    /\ quality_votes = {}
    /\ attachments = {}
    /\ disk = {}
    /\ items = <<>>
    /\ index = <<>>
    /\ hidden = {}
    /\ query = <<>>
    /\ archive \in IngestArchives
    /\ filedb = EmptyFileDB
    /\ ret = NoCall

\* the direct calls: a second content for a.png, and a.csv linked to either image id
NextIngest ==
    \/ \E f \in Catalogue : WriteFile(f)
    \/ ReloadAll
    \/ \E sel \in {x \in {<<>>, <<1>>} : Len(x) <= Len(items)}, src \in Dropped :
          AttachCsvPaths(sel, <<src>>)
    \/ UpsertImage(Path("", <<"a">>, ".png"), "s2", 2)
    \/ \E i \in 1..2 : UpsertAttachment(i, "csv", Path("", <<"a">>, ".csv"), "c1", 1)
    \/ lastrowid(quality_votes) <= MaxImportVoteId /\ ImportArchive(MaxTime)

SpecIngest == InitIngest /\ [][NextIngest]_vars

\* C6: no two rows of images share a sha256 and no two rows of attachments
\* share a sha256, in every state reached by upsert_image, upsert_attachment,
\* the scan, manual attach and import.
C6_DigestUnique ==
    /\ \A i, j \in images : i.sha256 = j.sha256 => i = j
    /\ \A a, b \in attachments : a.sha256 = b.sha256 => a = b

\* a manifest entry of the archive names an image or attachment member that
\* the zip does not hold
MissingMember(ar) ==
    \E k \in 1..Len(ar.images) :
        \/ ~HasMember(ar, <<"images", ar.images[k].sha256, _safe_ext(ar.images[k].rel_path)>>)
        \/ \E j \in 1..Len(ar.images[k].attachments) :
              ~HasMember(ar, <<"attachments", ar.images[k].attachments[j].sha256,
                               ar.images[k].attachments[j].ext>>)

\* C12: importing an archive whose manifest cannot be read, or whose manifest
\* names an image or attachment member that is not in the bundle, changes no
\* row of the store.
C12_MalformedAllOrNothing ==
    (~archive.manifest \/ MissingMember(archive)) =>
        import_archive(DBState, disk, items, archive, MaxTime).db = DBState

\* the scan has listed two files of one content under one image row, and one
\* attachment row stands for the content of two CSV files
C6_Witness ==
    /\ ret.op = "reload_all"
    /\ \E k, l \in 1..Len(items) :
          /\ items[k].path # items[l].path
          /\ items[k].image_id = items[l].image_id
    /\ \E f, g \in disk :
          /\ f.path # g.path /\ f.sha256 = g.sha256
          /\ \E a \in attachments : a.sha256 = f.sha256
    /\ \E i \in images : i.sha256 = "s3"

----------------------------------------------------------------------------
(* SpecScan: files appear under the root of a new library and are scanned.  *)
(* a.png and b.png have a sibling CSV each, with one content; b.csv may be  *)
(* unreadable; sub/a.PNG has the content of a.png; sub/s1.png shares its    *)
(* directory with two CSV files of other names.                             *)

ScanCatalogue ==
    {File("", <<"a">>, ".png", "s1", 1, TRUE),
     File("", <<"a">>, ".csv", "c1", 1, TRUE),
     File("", <<"b">>, ".png", "s2", 1, TRUE),
     File("", <<"b">>, ".csv", "c1", 2, TRUE),
     File("", <<"b">>, ".csv", "c1", 2, FALSE),
     File("sub", <<"a">>, ".PNG", "s1", 2, TRUE),
     File("sub", <<"s1">>, ".png", "s3", 1, TRUE),
     File("sub", <<"c1">>, ".csv", "c2", 1, TRUE),
     File("sub", <<"c2">>, ".csv", "c3", 2, TRUE)}

NextScan ==
    \/ \E f \in ScanCatalogue : WriteFile(f)
    \/ ReloadAll

SpecScan == InitRows /\ [][NextScan]_vars

\* the image files a scan of fs hashes, and the row of such a file in store d
Scanned(fs) == {f \in fs : lower(f.path[3]) \in IMAGE_EXTS /\ f.readable}
ImageRow(d, p) == CHOOSE i \in d.images : i.sha256 = p.sha256

\* the CSV files named <stem>.csv beside image file p
ExactSiblings(fs, p) ==
    {c \in fs : c.path[1] = p.path[1] /\ c.path[2] = p.path[2] /\ c.path[3] = ".csv"}

\* C18 as claimed: after a scan, the sibling <stem>.csv of every scanned
\* image is a 'csv' attachment of that image, whatever else is in the tree.
C18_ExactStemAlwaysLinked ==
    LET r == reload_all(DBState, disk).db
    IN  \A p \in Scanned(disk) : \A c \in ExactSiblings(disk, p) :
            \E a \in r.attachments :
                a.sha256 = c.sha256 /\ a.kind = "csv" /\ a.image_id = ImageRow(r, p).id

\* C18: after a scan, the readable sibling <stem>.csv of every scanned image
\* has an attachment row of its digest; the row is a 'csv' attachment of that
\* image, unless the digest was an attachment before the scan (the row is
\* then as it was) or was linked earlier in the scan to another image.
C18_ExactStemLinkedOnce ==
    LET r == reload_all(DBState, disk).db
    IN  \A p \in Scanned(disk) : \A c \in ExactSiblings(disk, p) :
            c.readable =>
              \E a \in r.attachments :
                /\ a.sha256 = c.sha256
                /\ \A b \in r.attachments : b.sha256 = a.sha256 => b = a
                /\ \/ a.kind = "csv" /\ a.image_id = ImageRow(r, p).id
                   \/ a \in attachments
                   \/ \E q \in Scanned(disk) :
                         /\ ScanRank(q.path) < ScanRank(p.path)
                         /\ a.kind = "csv" /\ a.image_id = ImageRow(r, q).id
                         /\ \E k \in 1..Len(CsvCandidates(disk, q)) :
                               /\ CsvCandidates(disk, q)[k].readable
                               /\ CsvCandidates(disk, q)[k].sha256 = c.sha256

\* a scan has run over a.png with a.csv and b.png with a readable b.csv of
\* the same content: the one attachment is linked to a.png's image
C18_Witness ==
    /\ ret.op = "reload_all"
    /\ {File("", <<"a">>, ".png", "s1", 1, TRUE), File("", <<"a">>, ".csv", "c1", 1, TRUE),
        File("", <<"b">>, ".png", "s2", 1, TRUE), File("", <<"b">>, ".csv", "c1", 2, TRUE)}
           \subseteq disk
    /\ \E i, j \in images :
          /\ i.sha256 = "s1" /\ j.sha256 = "s2"
          /\ \E a \in attachments : a.sha256 = "c1" /\ a.image_id = i.id

\* the CSV files beside image file p whose name starts with <stem>_
PrefixedSiblings(fs, p) ==
    {c \in fs : /\ c.path[1] = p.path[1] /\ c.path[3] = ".csv"
                /\ Len(c.path[2]) > Len(p.path[2])
                /\ SubSeq(c.path[2], 1, Len(p.path[2])) = p.path[2]}

C20_RescanIdempotent ==
    LET r1 == reload_all(DBState, disk)
        r2 == reload_all(r1.db, disk)
    IN  r2.db = r1.db /\ r2.items = r1.items

\* a scan has run over a.png and its copy sub/a.PNG (one image row, whose
\* rel_path is that of the file scanned last) and over a.csv, and a further
\* scan leaves this store as it is
C20_Witness ==
    /\ ret.op = "reload_all"
    /\ \E i \in images : i.sha256 = "s1" /\ i.rel_path = Path("sub", <<"a">>, ".PNG")
    /\ Exists(disk, Path("", <<"a">>, ".png"))
    /\ \E a \in attachments : a.rel_path = Path("", <<"a">>, ".csv")
    /\ reload_all(DBState, disk).db = DBState

\* the files of fs at path
FilesAt(fs, path) == {f \in fs : f.path = path}

\* the annotations of manifest entry im are active on image id in store d
AnnotationsOn(d, id, im) ==
    \A j \in 1..Len(im.annotations) :
        \E row \in 1..Len(get_tags_for_image(d, id)) :
            /\ get_tags_for_image(d, id)[row].name = im.annotations[j].tag
            /\ get_tags_for_image(d, id)[row].category = im.annotations[j].category
            /\ get_tags_for_image(d, id)[row].username = im.annotations[j].username

\* the attachments of the manifest whose digest is stored have their row as
\* it was, no second row and no file extracted
StoredAttachmentsKept(r) ==
    \A k \in 1..Len(archive.images) : \A j \in 1..Len(archive.images[k].attachments) :
        LET att == archive.images[k].attachments[j]
            dst == Path("attachments_imported", <<att.sha256>>, att.ext)
        IN  \A a \in attachments :
                a.sha256 = att.sha256 =>
                    /\ a \in r.db.attachments
                    /\ \A b \in r.db.attachments : b.sha256 = a.sha256 => b = a
                    /\ FilesAt(r.disk, dst) = FilesAt(disk, dst)

\* C28 as claimed: after import_archive, the row of every image of the
\* manifest whose digest was stored is as it was (id, rel_path, created_at),
\* no file was extracted for it and the annotations of the bundle are on its
\* id; a stored attachment digest keeps its row and gets no second one.
C28_ImportReusesRows ==
    (archive.written /\ archive.manifest) =>
        \A r \in {import_archive(DBState, disk, items, archive, MaxTime)} :
            /\ \A k \in 1..Len(archive.images) :
                  LET im == archive.images[k]
                      dst == Path("imported", <<im.sha256>>, _safe_ext(im.rel_path))
                  IN  \A i \in images :
                          i.sha256 = im.sha256 =>
                              /\ i \in r.db.images
                              /\ \A o \in r.db.images : o.sha256 = i.sha256 => o = i
                              /\ FilesAt(r.disk, dst) = FilesAt(disk, dst)
                              /\ r.status = "ok" => AnnotationsOn(r.db, i.id, im)
            /\ StoredAttachmentsKept(r)

\* C28: ... the row of every image of the manifest whose digest was stored
\* keeps its id and created_at, and its rel_path unless the scan that closes
\* the import finds a file of that content, whose path it then has; no file
\* was extracted for it and the annotations of the bundle are on its id; a
\* stored attachment digest keeps its row and gets no second one.
C28_ImportReusesIds ==
    (archive.written /\ archive.manifest) =>
        \A r \in {import_archive(DBState, disk, items, archive, MaxTime)} :
            /\ \A k \in 1..Len(archive.images) :
                  LET im == archive.images[k]
                      dst == Path("imported", <<im.sha256>>, _safe_ext(im.rel_path))
                  IN  \A i \in images :
                          i.sha256 = im.sha256 =>
                              /\ \E o \in r.db.images :
                                    /\ o.id = i.id /\ o.sha256 = i.sha256
                                    /\ o.created_at = i.created_at
                                    /\ \/ o.rel_path = i.rel_path
                                       \/ /\ r.status = "ok"
                                          /\ \E f \in Scanned(r.disk) :
                                                f.sha256 = i.sha256 /\ o.rel_path = f.path
                              /\ \A o, q \in r.db.images :
                                    (o.sha256 = i.sha256 /\ q.sha256 = i.sha256) => o = q
                              /\ FilesAt(r.disk, dst) = FilesAt(disk, dst)
                              /\ r.status = "ok" => AnnotationsOn(r.db, i.id, im)
            /\ StoredAttachmentsKept(r)

\* bob's bundle was imported into the library that had a.png (the content of
\* the bundle's c.png) with a.csv (the content of the bundle's b.csv): the
\* image row is under its old path, nothing was extracted for either, and
\* a.csv still belongs to a.png's image beside the imported b.png
C28_Witness ==
    /\ ret.op = "import_archive" /\ ret.status = "ok"
    /\ \E i, j \in images :
          /\ i.sha256 = "s1" /\ i.rel_path[1] # "imported"
          /\ j.sha256 = "s3" /\ j.rel_path[1] = "imported"
          /\ \E a \in attachments : a.sha256 = "c1" /\ a.image_id = i.id
    /\ ~Exists(disk, Path("imported", <<"s1">>, ".png"))
    /\ ~Exists(disk, Path("attachments_imported", <<"c1">>, ".csv"))

----------------------------------------------------------------------------
(* SpecBulk: scans and imports in which one file fails.  alice's library    *)
(* holds a.png, which cannot be read, b.png and an unreadable b.csv; the    *)
(* bundle is bob's (b.png of digest s3 with b.csv, then c.png of digest s1), *)
(* whole or with one member that cannot be read to its end.                  *)

BulkCatalogue ==
    {File("", <<"a">>, ".png", "s1", 1, FALSE),
     File("", <<"a">>, ".png", "s1", 1, TRUE),
     File("", <<"b">>, ".png", "s2", 1, TRUE),
     File("", <<"b">>, ".csv", "c2", 1, FALSE),
     File("", <<"b">>, ".csv", "c2", 1, TRUE)}

\* the bundle with the bytes of one member damaged: its copy raises
CorruptMember(ar, name) ==
    [ar EXCEPT !.members =
        {IF x.name = name THEN [x EXCEPT !.sha256 = "bad", !.readable = FALSE] ELSE x :
            x \in ar.members}]
BulkArchives ==
    {SampleArchive,
     CorruptMember(SampleArchive, <<"images", "s3", ".png">>),
     CorruptMember(SampleArchive, <<"attachments", "c1", ".csv">>)}

InitBulk ==
    /\ users = {[id |-> 1, username |-> "alice"]}
    /\ images = {}
    /\ tags = {}
    /\ annotations = EmptyBag
    /\ quality_votes = {}
    /\ attachments = {}
    /\ disk = {}
    /\ items = <<>>
    /\ index = <<>>
    /\ hidden = {}
    /\ query = <<>>
    /\ archive \in BulkArchives
    /\ filedb = EmptyFileDB
    /\ ret = NoCall

NextBulk ==
    \/ \E f \in BulkCatalogue : WriteFile(f)
    \/ ReloadAll
    \/ lastrowid(quality_votes) <= MaxImportVoteId /\ ImportArchive(MaxTime)

SpecBulk == InitBulk /\ [][NextBulk]_vars

\* C24: a scan lists and stores every image file it can hash and links every
\* candidate CSV it can read, whatever other file fails; an import of a
\* bundle with a readable manifest completes, and every image of the manifest
\* that is stored already or whose member can be copied has its row and its
\* annotations afterwards, whatever other member fails.
C24_FailuresIsolated ==
    /\ \A r \in {reload_all(DBState, disk)} :
          \A p \in Scanned(disk) :
              /\ \E k \in 1..Len(r.items) : r.items[k].path = p.path
              /\ \E i \in r.db.images : i.sha256 = p.sha256
              /\ \A n \in 1..Len(CsvCandidates(disk, p)) :
                    CsvCandidates(disk, p)[n].readable =>
                        \E a \in r.db.attachments : a.sha256 = CsvCandidates(disk, p)[n].sha256
    /\ (archive.written /\ archive.manifest) =>
          \A r \in {import_archive(DBState, disk, items, archive, MaxTime)} :
              /\ r.status = "ok"
              /\ \A k \in 1..Len(archive.images) :
                    LET im == archive.images[k]
                        name == <<"images", im.sha256, _safe_ext(im.rel_path)>>
                    IN  (\/ \E i \in images : i.sha256 = im.sha256
                         \/ HasMember(archive, name) /\ MemberOf(archive, name).readable) =>
                            \E i \in r.db.images :
                                /\ i.sha256 = im.sha256
                                /\ \A j \in 1..Len(im.annotations) :
                                      \E row \in 1..Len(get_tags_for_image(r.db, i.id)) :
                                          /\ get_tags_for_image(r.db, i.id)[row].name = im.annotations[j].tag
                                          /\ get_tags_for_image(r.db, i.id)[row].username = im.annotations[j].username

----------------------------------------------------------------------------
(* SpecRules: the three rules of the CSV auto-link.  One directory in which  *)
(* a.png and b.png appear beside a.csv, a_1.csv, a_2.csv (farther from      *)
(* a.png in time than a_1.csv, as far, or nearer) and c1.csv, in any order.  *)

RulesCatalogue ==
    {File("", <<"a">>, ".png", "s1", 2, TRUE),
     File("", <<"b">>, ".png", "s2", 2, TRUE),
     File("", <<"a">>, ".csv", "c1", 1, TRUE),
     File("", <<"a", "1">>, ".csv", "c2", 1, TRUE),
     File("", <<"a", "2">>, ".csv", "c3", 4, TRUE),
     File("", <<"a", "2">>, ".csv", "c3", 3, TRUE),
     File("", <<"a", "2">>, ".csv", "c3", 2, TRUE),
     File("", <<"c1">>, ".csv", "c4", 1, TRUE)}

NextRules ==
    \/ \E f \in RulesCatalogue : WriteFile(f)
    \/ ReloadAll

SpecRules == InitRows /\ [][NextRules]_vars

\* every *.csv of the directory of image file p
DirCsvs(fs, p) == {c \in fs : c.path[1] = p.path[1] /\ c.path[3] = ".csv"}

\* C26: for every scanned image file the candidates are its sibling
\* <stem>.csv when there is one; else the only *.csv of the directory when
\* there is exactly one; else, of the siblings <stem>_*.csv, the single one
\* none of which is closer in modification time to the image; else none.  A
\* scan gives an image no new attachment other than a candidate of one of its
\* files.
C26_RulePrecedence ==
    /\ \A p \in Scanned(disk) :
          LET seq == CsvCandidates(disk, p)
              cands == {seq[n] : n \in 1..Len(seq)}
          IN  /\ Len(seq) = Cardinality(cands)
              /\ IF ExactSiblings(disk, p) # {} THEN cands = ExactSiblings(disk, p)
                 ELSE IF Cardinality(DirCsvs(disk, p)) = 1 THEN cands = DirCsvs(disk, p)
                 ELSE IF PrefixedSiblings(disk, p) # {}
                 THEN /\ Cardinality(cands) = 1
                      /\ cands \subseteq PrefixedSiblings(disk, p)
                      /\ \A c \in cands, o \in PrefixedSiblings(disk, p) :
                            Abs(c.mtime - p.mtime) <= Abs(o.mtime - p.mtime)
                 ELSE cands = {}
    /\ \A r \in {reload_all(DBState, disk).db} :
          \A a \in r.attachments \ attachments :
              \E p \in Scanned(disk) :
                  /\ a.image_id = ImageRow(r, p).id
                  /\ \E n \in 1..Len(CsvCandidates(disk, p)) :
                        CsvCandidates(disk, p)[n].sha256 = a.sha256

\* a scan has run over a.png beside a_1.csv (one tick older) and a_2.csv (two
\* ticks newer), with c1.csv in the directory and no a.csv: a_1.csv is linked
\* and a_2.csv is not
C26_Witness ==
    /\ ret.op = "reload_all"
    /\ {File("", <<"a">>, ".png", "s1", 2, TRUE), File("", <<"a", "1">>, ".csv", "c2", 1, TRUE),
        File("", <<"a", "2">>, ".csv", "c3", 4, TRUE), File("", <<"c1">>, ".csv", "c4", 1, TRUE)}
           \subseteq disk
    /\ ~Exists(disk, Path("", <<"a">>, ".csv"))
    /\ \E a \in attachments : a.sha256 = "c2" /\ a.image_id = ImageRow(DBState, FileAt(disk, Path("", <<"a">>, ".png"))).id
    /\ ~\E a \in attachments : a.sha256 = "c3"

----------------------------------------------------------------------------
(* SpecUI: alice opens a library bob has worked in.  a.png (tagged t1 under *)
(* 'condition' and voted good by bob) was modified on the last tick of day  *)
(* d1, b.png on the first tick of d2; b.png is rewritten on the last tick   *)
(* of d2 and a copy of a.png appears as sub/a.PNG on the first tick of d3.  *)
(* alice tags, votes, drops a CSV, rescans and searches.                    *)

UIDisk ==
    {File("", <<"a">>, ".png", "s1", DayStart(2) - 1, TRUE),
     File("", <<"b">>, ".png", "s2", DayStart(2), TRUE)}

UICatalogue ==
    {File("", <<"b">>, ".png", "s2", DayStart(3) - 1, TRUE),
     File("sub", <<"a">>, ".PNG", "s1", DayStart(3), TRUE)}

UIDropped ==
    [outside |-> TRUE, path |-> Path("", <<"x">>, ".csv"), sha256 |-> "c2", mtime |-> 2,
     readable |-> TRUE]

\* the store bob left: his tag and his vote on a.png
UIStore ==
    LET d1 == upsert_image(ensure_user(EmptyDB, "Bob").db, Path("", <<"a">>, ".png"), "s1",
                           DayStart(2) - 1).db
        d2 == add_tag_for_user(d1, 1, "t1", 1, "condition", 1).db
    IN  upsert_quality(d2, 1, 1, "good", NULL, NULL, 1).db

InitUI ==
    LET r == Opened(UIStore, UIDisk, "alice")
    IN  /\ users = r.db.users
        /\ images = r.db.images
        /\ tags = r.db.tags
        /\ annotations = r.db.annotations
        /\ quality_votes = r.db.quality_votes
        /\ attachments = r.db.attachments
        /\ disk = UIDisk
        /\ items = r.items
        /\ index = r.maps
        /\ hidden = {}
        /\ query = <<>>
        /\ archive = NoArchive
        /\ filedb = EmptyFileDB
        /\ ret = NoCall

Tok(pre, val) == [pre |-> pre, val |-> val]

\* the tokens of the queries of the model
Tokens ==
    {Tok("#", <<"T">>), Tok("#", <<"t1">>), Tok("#", <<>>),
     Tok("cat:", <<"condition">>), Tok("cat:", <<>>),
     Tok("user:", <<"alice">>), Tok("user:", <<"bob">>),
     Tok("label:", <<"good">>), Tok("label:", <<"bad">>),
     Tok("has:", <<"csv">>), Tok("has:", <<"x">>),
     Tok("", <<"b">>), Tok("", <<"sub">>),
     Tok("date:", <<"d1">>), Tok("date:", <<"d2">>), Tok("date:", <<"d3">>),
     Tok("date:", <<"d1", "..", "d2">>), Tok("date:", <<">=", "d2">>),
     Tok("date:", <<"<=", "d2">>), Tok("date>=", <<"d2">>),
     Tok("date:", <<"junk">>), Tok("date:", <<"d1", "..", "junk">>), Tok("date:", <<>>)}

\* the texts of at most MaxTokens tokens
Queries == UNION {[1..n -> Tokens] : n \in 0..MaxTokens}

\* the texts typed into the search box
SearchTexts ==
    {<<>>, <<Tok("#", <<"t1">>)>>, <<Tok("date:", <<"d2">>)>>, <<Tok("date:", <<"junk">>)>>}

UISelections(its) == {s \in {<<>>, <<1>>, <<1, 2>>} : Len(s) <= Len(its)}

NextUI ==
    \/ \E f \in UICatalogue : WriteFile(f)
    \/ ReloadAll
    \/ \E q \in SearchTexts : OnSearch(q)
    \/ \E sel \in UISelections(items), text \in {"T1", "  "} : AddTagClicked(sel, text, "")
    \/ \E sel \in UISelections(items) \ {<<>>} :
          \E k \in 1..Len(get_tags_for_image(DBState, items[sel[Len(sel)]].image_id)) :
              DelTagClicked(sel, get_tags_for_image(DBState, items[sel[Len(sel)]].image_id)[k])
    \/ \E sel \in {<<>>, <<1>>}, label \in {"bad", "great"} :
          /\ lastrowid(quality_votes) <= MaxRowId
          /\ VoteQuality(sel, label)
    \/ \E sel \in {<<>>, <<1>>} : AttachCsvPaths(sel, <<UIDropped>>)

SpecUI == InitUI /\ [][NextUI]_vars

\* the positions a search text leaves visible
Shown(q) == (1..Len(items)) \ on_search(items, index, q)

\* C21: a search shows an item iff each token of the text, taken alone,
\* shows it, also for two tokens of one filter type; 'cat:C user:U label:L'
\* shows exactly the items whose indexed categories hold C, annotators U and
\* vote labels L.
C21_TokensAndTogether ==
    /\ \A q \in Queries :
          Shown(q) = {k \in 1..Len(items) : \A n \in 1..Len(q) : k \in Shown(<<q[n]>>)}
    /\ \A c \in {"condition"}, u \in {"alice", "bob"}, l \in {"good", "bad"} :
          Shown(<<Tok("cat:", <<c>>), Tok("user:", <<u>>), Tok("label:", <<l>>)>>) =
              {k \in 1..Len(items) :
                  LET e == MapGet(index, items[k].image_id)
                  IN  c \in e.cats /\ u \in e.users /\ l \in e.labels}

\* C22: a search text with a date token whose value does not parse hides
\* every item.
C22_UnparseableDateHidesAll ==
    \A q \in Queries :
        (\E n \in 1..Len(q) :
            q[n].pre \in DatePrefixes /\ parse_date_try(DateArg(q[n])) = Raised) =>
                Shown(q) = {}

\* the handlers that change the store
MutatingHandlers ==
    {"add_tag_clicked", "del_tag_clicked", "vote_quality", "attach_csv_paths",
     "import_archive", "reload_all"}

\* C23: when a handler that changes the store has completed, the index
\* entry of every listed image is the projection of the store's rows: the
\* lower-cased names, categories and annotators of its active tags, its vote
\* labels and whether it has a CSV attachment.
C23_IndexFollowsStore ==
    (ret.op \in MutatingHandlers /\ ret.status = "ok") =>
        \A k \in 1..Len(items) :
            LET e == MapGet(index, items[k].image_id)
            IN  e = IndexEntry(DBState, items[k].image_id, e.created_at)

\* "d1", "d2", "d3": the name of day k
DayName(k) == "d" \o ToString(k)

\* C30: 'date:D' for a day D, alone or beside a token of another filter,
\* shows exactly the items the other token shows whose indexed timestamp t
\* has DayStart(D) <= t < DayStart(D + 1); after a scan the indexed
\* timestamp of an image listed once is the modification time of its file.
C30_BareDateWholeDay ==
  /\ \A r \in {reload_all(DBState, disk)} :
        \A k \in 1..Len(r.items) :
            (\A n \in 1..Len(r.items) : r.items[n].image_id = r.items[k].image_id => n = k) =>
                MapGet(r.maps, r.items[k].image_id).created_at = FileAt(disk, r.items[k].path).mtime
  /\ \A day \in 1..3 :
        \A rest \in {<<>>} \cup {<<t>> : t \in {x \in Tokens : x.pre \notin DatePrefixes}} :
            LET inDay == {k \in 1..Len(items) :
                            LET t == MapGet(index, items[k].image_id).created_at
                            IN  DayStart(day) <= t /\ t < DayStart(day + 1)}
                tok == <<Tok("date:", <<DayName(day)>>)>>
            IN  /\ Shown(tok \o rest) = Shown(rest) \cap inDay
                /\ Shown(rest \o tok) = Shown(rest) \cap inDay

\* the search date:d2 has run: it shows an item of the last tick of d2 and
\* hides one of the first tick of d3 and one of the last tick of d1
C30_Witness ==
    /\ ret.op = "on_search"
    /\ query = <<Tok("date:", <<"d2">>)>>
    /\ \E k \in 1..Len(items) :
          k \notin hidden /\ MapGet(index, items[k].image_id).created_at = DayStart(3) - 1
    /\ \E k \in hidden : MapGet(index, items[k].image_id).created_at = DayStart(3)

----------------------------------------------------------------------------
(* SpecChange: the library of SpecUI (a.png, tagged and voted on by Bob, and *)
(* b.png).  a.png is overwritten with new bytes, with the bytes of b.png or  *)
(* with its old bytes; its old content also appears as sub/a.PNG; a.csv      *)
(* appears beside it.  The tree is rescanned at any time.                    *)

ChangeCatalogue ==
    {File("", <<"a">>, ".png", "s3", 3, TRUE),
     File("", <<"a">>, ".png", "s2", 3, TRUE),
     File("", <<"a">>, ".png", "s1", 2, TRUE),
     File("sub", <<"a">>, ".PNG", "s1", 3, TRUE),
     File("", <<"a">>, ".csv", "c1", 1, TRUE)}

NextChange ==
    \/ \E f \in ChangeCatalogue : WriteFile(f)
    \/ ReloadAll

SpecChange == InitUI /\ [][NextChange]_vars

\* the contents an image file is overwritten with
ChangeDigests == {"s1", "s2", "s3"}

\* the rows that hang on image id in store d
Dependents(d, id) ==
    [annotations |-> {a \in AnnRows(d) : a.image_id = id},
     quality_votes |-> {q \in d.quality_votes : q.image_id = id},
     attachments |-> {a \in d.attachments : a.image_id = id}]

\* C27 as claimed: after a scan, when the bytes of a scanned image file
\* change and the tree is scanned again, the second scan creates an image
\* row with the new digest and the path of the file, and the row of the old
\* digest and the rows that hang on it are as they were.
C27_ChangedContentNewRow ==
    \A d1 \in {reload_all(DBState, disk).db} :
        \A f \in Scanned(disk) : \A s \in ChangeDigests \ {f.sha256} :
            \A d2 \in {reload_all(d1, WriteTo(disk, [f EXCEPT !.sha256 = s])).db} :
                /\ \E i \in d2.images \ d1.images :
                      /\ i.sha256 = s /\ i.rel_path = f.path
                      /\ i.id \notin Ids(d1.images)
                /\ ImageRow(d1, f) \in d2.images
                /\ Dependents(d2, ImageRow(d1, f).id) = Dependents(d1, ImageRow(d1, f).id)

\* C27: ... the second scan creates an image row with the new digest and the
\* path of the file, unless a row of the new digest exists (then no row is
\* created and that row keeps its id and created_at); the row of the old
\* digest keeps its id, digest and created_at, and its rel_path unless
\* another scanned file holds the old content, whose path it then has; the
\* rows that hang on it are as they were.
C27_ChangedContentKeepsOldRow ==
    \A d1 \in {reload_all(DBState, disk).db} :
        \A f \in Scanned(disk) : \A s \in ChangeDigests \ {f.sha256} :
            \A fs2 \in {WriteTo(disk, [f EXCEPT !.sha256 = s])} :
                \A d2 \in {reload_all(d1, fs2).db} :
                    LET old == ImageRow(d1, f)
                        others == {g \in Scanned(fs2) : g.sha256 = f.sha256}
                    IN  /\ IF \E j \in d1.images : j.sha256 = s
                           THEN /\ Ids(d2.images) = Ids(d1.images)
                                /\ \E i \in d2.images :
                                      /\ i.sha256 = s
                                      /\ i.id = ImageRow(d1, [f EXCEPT !.sha256 = s]).id
                                      /\ i.created_at = ImageRow(d1, [f EXCEPT !.sha256 = s]).created_at
                           ELSE \E i \in d2.images :
                                      /\ i.sha256 = s /\ i.rel_path = f.path
                                      /\ i.id \notin Ids(d1.images)
                        /\ \E o \in d2.images :
                              /\ o.id = old.id /\ o.sha256 = old.sha256
                              /\ o.created_at = old.created_at
                              /\ IF others = {} THEN o.rel_path = old.rel_path
                                 ELSE \E g \in others : o.rel_path = g.path
                        /\ Dependents(d2, old.id) = Dependents(d1, old.id)

\* a.png, scanned with the content Bob tagged, was overwritten with new
\* bytes and the tree was scanned again: two rows have the path of a.png, the
\* old one with Bob's tag and vote
C27_Witness ==
    /\ ret.op = "reload_all"
    /\ FileAt(disk, Path("", <<"a">>, ".png")).sha256 = "s3"
    /\ \E i, j \in images :
          /\ i.sha256 = "s1" /\ j.sha256 = "s3"
          /\ i.rel_path = j.rel_path /\ i.rel_path = Path("", <<"a">>, ".png")
          /\ Dependents(DBState, i.id).annotations # {}
          /\ Dependents(DBState, i.id).quality_votes # {}

----------------------------------------------------------------------------
(* SpecArchive: alice's library with a.png (and its a.csv) and b.png is      *)
(* tagged and voted on by alice and bob, a selection is exported once, and   *)
(* the bundle is imported into the same library or into the new library of   *)
(* bob, any number of times.                                                 *)

ArchiveDisk ==
    {File("", <<"a">>, ".png", "s1", 1, TRUE), File("", <<"a">>, ".csv", "c1", 1, TRUE),
     File("", <<"b">>, ".png", "s2", 1, TRUE)}

InitArchive ==
    LET r == Opened(ensure_user(EmptyDB, "bob").db, ArchiveDisk, "alice")
    IN  /\ users = r.db.users
        /\ images = r.db.images
        /\ tags = r.db.tags
        /\ annotations = r.db.annotations
        /\ quality_votes = r.db.quality_votes
        /\ attachments = r.db.attachments
        /\ disk = ArchiveDisk
        /\ items = r.items
        /\ index = r.maps
        /\ hidden = {}
        /\ query = <<>>
        /\ archive = NoArchive
        /\ filedb = EmptyFileDB
        /\ ret = NoCall

\* the bundle is carried to a machine where bob opens a new, empty library
NewLibrary ==
    /\ archive.written
    /\ LET r == Opened(EmptyDB, {}, "bob")
       IN  SetDB(r.db) /\ items' = r.items /\ index' = r.maps /\ hidden' = {} /\ query' = <<>>
    /\ disk' = {}
    /\ ret' = NoCall
    /\ UNCHANGED <<archive, filedb>>

NextArchive ==
    \/ \E u \in 1..2 : AddTagForUser(1, "t1", u, "", 1)
    \/ \E u \in 1..2 : RemoveTagForUser(1, "t1", u, "", 1)
    \/ \E l \in {"good", "bad"} :
          lastrowid(quality_votes) <= MaxImportVoteId /\ UpsertQuality(1, 1, l, NULL, NULL, 1)
    \/ \E sel \in {<<1>>, <<1, 2>>} :
          ~archive.written /\ Len(items) = 2 /\ ExportSelection(sel, "alice")
    \/ NewLibrary
    \/ lastrowid(quality_votes) <= MaxImportVoteId /\ ImportArchive(MaxTime)

SpecArchive == InitArchive /\ [][NextArchive]_vars

\* the number of rows of each table
RowCounts(d) ==
    <<Cardinality(d.users), Cardinality(d.tags), Cardinality(d.images),
      Cardinality(d.attachments), BagCardinality(d.annotations),
      Cardinality(d.quality_votes)>>

\* some (image, tag, user) has more than one active row
DuplicateActive(d) ==
    \E a \in AnnRows(d) :
        BagCardinality([x \in {y \in AnnRows(d) :
                                  /\ y.image_id = a.image_id /\ y.tag_id = a.tag_id
                                  /\ y.user_id = a.user_id /\ y.is_deleted = 0}
                           |-> d.annotations[x]]) > 1

ImportHere == import_archive(DBState, disk, items, archive, MaxTime)
ImportAgain ==
    import_archive(ImportHere.db, ImportHere.disk, ImportHere.items, archive, MaxTime)

AnnState(anns, image_id, tag_id, user_id) ==
    LET rows == {a \in BagToSet(anns) :
                    a.image_id = image_id /\ a.tag_id = tag_id /\ a.user_id = user_id}
    IN  IF rows = {} THEN "absent"
        ELSE IF \E a \in rows : a.is_deleted = 0 THEN "active"
        ELSE "deleted"

AddOps == {"add_tag_for_user", "import_archive"}
RemoveOps == {"remove_tag_for_user"}

\* C25: in every step of add_tag_for_user, remove_tag_for_user and
\* import_archive each triple (image, tag, user) keeps its state or goes
\* absent -> active or soft-deleted -> active (add and import only) or
\* active -> soft-deleted (remove only); none goes absent -> soft-deleted and
\* none returns to absent.
C25_AnnotationStateMachine ==
    [][ret'.op \in AddOps \cup RemoveOps =>
          \A i \in 1..2, t \in 1..2, u \in 1..3 :
              LET a == AnnState(annotations, i, t, u)
                  b == AnnState(annotations', i, t, u)
              IN  \/ a = b
                  \/ a \in {"absent", "deleted"} /\ b = "active" /\ ret'.op \in AddOps
                  \/ a = "active" /\ b = "deleted" /\ ret'.op \in RemoveOps]_vars

\* an import has run in a library where both users had removed their tag:
\* the triple of the bundle is active again, written by the import, and the
\* other triple is still soft-deleted
C25_Witness ==
    /\ ret.op = "import_archive" /\ ret.status = "ok"
    /\ \E a, b \in BagToSet(annotations) :
          /\ a.is_deleted = 0 /\ a.created_at = MaxTime
          /\ b.is_deleted = 1 /\ b.image_id = a.image_id /\ b.tag_id = a.tag_id
          /\ b.user_id # a.user_id

\* the number of rows of each table of store d
Counts(d) ==
    [users |-> Cardinality(d.users), images |-> Cardinality(d.images),
     tags |-> Cardinality(d.tags), attachments |-> Cardinality(d.attachments),
     annotations |-> BagCardinality(d.annotations),
     quality_votes |-> Cardinality(d.quality_votes)]

\* no table of d2 has fewer rows than it has in d1
NotFewer(d2, d1) == \A t \in DOMAIN Counts(d1) : Counts(d2)[t] >= Counts(d1)[t]

NormalOps ==
    {"ensure_user", "upsert_image", "upsert_tag", "upsert_attachment", "add_tag_for_user",
     "remove_tag_for_user", "upsert_quality", "reload_all", "export_selection",
     "import_archive"}

\* C29: in every state, no call of ensure_user, upsert_image, upsert_tag,
\* upsert_attachment, add_tag_for_user, remove_tag_for_user or upsert_quality,
\* no scan and no import leaves a table with fewer rows than it had, and no
\* step of these operations or of an export does.
C29_RowsNeverRemoved ==
    /\ [](/\ \A n \in {"alice", "bob", "carol"} : NotFewer(ensure_user(DBState, n).db, DBState)
          /\ \A p \in {Path("", <<"a">>, ".png"), Path("sub", <<"a">>, ".PNG")},
                s \in {"s1", "s3"} :
                NotFewer(upsert_image(DBState, p, s, 1).db, DBState)
          /\ \A k \in TagKeys : NotFewer(upsert_tag(DBState, k[1], k[2]).db, DBState)
          /\ \A i \in 1..3, s \in {"c1", "c2"} :
                NotFewer(upsert_attachment(DBState, i, "csv", Path("", <<"x">>, ".csv"), s, 1).db,
                         DBState)
          /\ \A i \in 1..3, k \in TagKeys, u \in 1..3 :
                /\ NotFewer(add_tag_for_user(DBState, i, k[1], u, k[2], 1).db, DBState)
                /\ NotFewer(remove_tag_for_user(DBState, i, k[1], u, k[2], 1).db, DBState)
          /\ \A i \in 1..3, u \in 1..3, l \in {"good", "bad", "great"} :
                NotFewer(upsert_quality(DBState, i, u, l, NULL, NULL, 1).db, DBState)
          /\ NotFewer(reload_all(DBState, disk).db, DBState)
          /\ archive.written =>
                NotFewer(import_archive(DBState, disk, items, archive, MaxTime).db, DBState))
    /\ [][ret'.op \in NormalOps => NotFewer(DBState', DBState)]_vars

\* a user has removed a tag after a vote was replaced: the annotation row
\* is still there, soft-deleted, and the one vote has a later id
C29_Witness ==
    /\ ret.op = "remove_tag_for_user"
    /\ \E a \in BagToSet(annotations) : a.is_deleted = 1
    /\ Cardinality(quality_votes) = 1
    /\ \E q \in quality_votes : q.id > 1

----------------------------------------------------------------------------
(* SpecLate: files that reach the library after its last scan.  Alice's new *)
(* library receives bob's bundle, whole or exported after b.png had left    *)
(* bob's disk; files are written under the root, among them one with the    *)
(* content of b.png, scans and imports run, and tags are removed.           *)

LateCatalogue ==
    {File("", <<"b">>, ".png", "s3", 1, TRUE), File("", <<"a">>, ".png", "s1", 1, TRUE),
     File("", <<"a">>, ".png", "s2", 2, TRUE), File("sub", <<"a">>, ".PNG", "s3", 2, TRUE)}

LateArchives == {SampleArchive, SampleWithout(<<"b">>, ".png")}

InitLate ==
    /\ users = {[id |-> 1, username |-> "alice"]}
    /\ images = {}
    /\ tags = {}
    /\ annotations = EmptyBag
    /\ quality_votes = {}
    /\ attachments = {}
    /\ disk = {}
    /\ items = <<>>
    /\ index = <<>>
    /\ hidden = {}
    /\ query = <<>>
    /\ archive \in LateArchives
    /\ filedb = EmptyFileDB
    /\ ret = NoCall

NextLate ==
    \/ \E f \in LateCatalogue : WriteFile(f)
    \/ ReloadAll
    \/ \E i \in 1..2 : RemoveTagForUser(i, "t1", 2, "", 1)
    \/ lastrowid(quality_votes) <= MaxImportVoteId /\ ImportArchive(MaxTime)

SpecLate == InitLate /\ [][NextLate]_vars

\* C34: in every state, importing the bundle marks no annotation row deleted
\* (every row with is_deleted = 1 after the import was there, deleted,
\* before it), and when the import completes, every annotation the manifest
\* lists for an image is active on the image row of that digest, if the
\* store has one after the import.
C34_ImportOnlyActivates ==
    (archive.written /\ archive.manifest) =>
        \A r \in {import_archive(DBState, disk, items, archive, MaxTime)} :
            /\ \A a \in AnnRows(r.db) :
                  a.is_deleted # 0 =>
                      CopiesIn(a, r.db.annotations) <= CopiesIn(a, annotations)
            /\ r.status = "ok" =>
                  \A k \in 1..Len(archive.images) :
                      \A i \in r.db.images :
                          i.sha256 = archive.images[k].sha256 =>
                              AnnotationsOn(r.db, i.id, archive.images[k])

----------------------------------------------------------------------------
(* datenest/importer.py: import_files on the database of datenest/db.py      *)

\* get_or_create_tag_id(conn, name); tags.id is AUTOINCREMENT and no row is
\* ever deleted, so the next id is the largest id plus one
get_or_create_tag_id(fd, name) ==
    LET r == {t \in fd.tags : t.name = name}
    IN  IF r # {}
        THEN [db |-> fd, value |-> (CHOOSE t \in r : TRUE).id]
        ELSE [db |-> [fd EXCEPT !.tags = @ \cup {[id |-> lastrowid(fd.tags), name |-> name]}],
              value |-> lastrowid(fd.tags)]

\* tag_ids = [get_or_create_tag_id(conn, t.strip()) for t in tags if t.strip()]
RECURSIVE tag_ids_of(_, _)
tag_ids_of(fd, tgs) ==
    IF tgs = <<>> THEN [db |-> fd, value |-> <<>>]
    ELSE IF strip(Head(tgs)) = "" THEN tag_ids_of(fd, Tail(tgs))
    ELSE LET g == get_or_create_tag_id(fd, strip(Head(tgs)))
             rest == tag_ids_of(g.db, Tail(tgs))
         IN  [db |-> rest.db, value |-> <<g.value>> \o rest.value]

\* mutant: the stored file is recognised by its path instead of its digest
insert_or_ignore_file_by_path(fd, path, digest) ==
    IF \E f \in fd.files : f.path = path
    THEN [db |-> fd, rowcount |-> 0]
    ELSE [db |-> [fd EXCEPT !.files = @ \cup
                    {[id |-> lastrowid(fd.files), path |-> path, sha256 |-> digest]}],
          rowcount |-> 1]

\* INSERT OR IGNORE INTO files(path, sha256, size): sha256 is UNIQUE
insert_or_ignore_file(fd, path, digest) ==
    IF \E f \in fd.files : f.sha256 = digest
    THEN [db |-> fd, rowcount |-> 0]
    ELSE [db |-> [fd EXCEPT !.files = @ \cup
                    {[id |-> lastrowid(fd.files), path |-> path, sha256 |-> digest]}],
          rowcount |-> 1]

\* mutant: INSERT INTO file_tags without the UNIQUE(file_id, tag_id) check
RECURSIVE link_tags_plain(_, _, _)
link_tags_plain(st, file_id, tids) ==
    IF tids = <<>> THEN st
    ELSE LET row == [file_id |-> file_id, tag_id |-> Head(tids)]
         IN  link_tags_plain([st EXCEPT !.db.file_tags = @ (+) SetToBag({row}),
                                        !.links = @ + 1],
                             file_id, Tail(tids))

\* for tid in tag_ids: INSERT OR IGNORE INTO file_tags; st = [db, links].
\* UNIQUE(file_id, tag_id): the row is ignored (rowcount 0) when it is stored
RECURSIVE link_tags(_, _, _)
link_tags(st, file_id, tids) ==
    IF tids = <<>> THEN st
    ELSE LET row == [file_id |-> file_id, tag_id |-> Head(tids)]
         IN  link_tags(IF BagIn(row, st.db.file_tags) THEN st
                       ELSE [st EXCEPT !.db.file_tags = @ (+) SetToBag({row}),
                                       !.links = @ + 1],
                       file_id, Tail(tids))

\* str(p) bound as TEXT in the INSERT: a file name holding bytes that are not
\* UTF-8 (written "g~" here) cannot be encoded and the statement raises
encodable(path) == path # "g~"

\* for p in files; st = [db, status, inserted, duplicates, links].  p is what
\* the call finds at a path: [path, kind, sha256, readable]
RECURSIVE import_each(_, _, _)
import_each(st, fls, tids) ==
    IF fls = <<>> \/ st.status # "ok" THEN st
    ELSE LET p == Head(fls)
             ins == insert_or_ignore_file(st.db, p.path, p.sha256)
             file_id == (CHOOSE f \in ins.db.files : f.sha256 = p.sha256).id
             lk == link_tags([db |-> ins.db, links |-> st.links], file_id, tids)
         IN  IF p.kind # "file" THEN import_each(st, Tail(fls), tids)
             ELSE IF ~p.readable THEN [st EXCEPT !.status = "OSError"]
             ELSE IF ~encodable(p.path) THEN [st EXCEPT !.status = "UnicodeEncodeError"]
             ELSE import_each([db |-> lk.db, status |-> "ok",
                               inserted |-> st.inserted + ins.rowcount,
                               duplicates |-> st.duplicates + (1 - ins.rowcount),
                               links |-> lk.links], Tail(fls), tids)

\* mutant: every statement is committed as it runs
import_files_autocommit(fd, fls, tgs) ==
    LET t == tag_ids_of(fd, tgs)
        st == import_each([db |-> t.db, status |-> "ok", inserted |-> 0, duplicates |-> 0,
                           links |-> 0], fls, t.value)
    IN  IF st.status = "ok"
        THEN [db |-> st.db, status |-> "ok",
              value |-> [inserted |-> st.inserted, duplicates |-> st.duplicates,
                         tag_links |-> st.links]]
        ELSE [db |-> st.db, status |-> st.status, value |-> NoValue]

\* one transaction: an exception rolls every statement of the call back and
\* leaves the function, otherwise the statistics are returned
import_files(fd, fls, tgs) ==
    LET t == tag_ids_of(fd, tgs)
        st == import_each([db |-> t.db, status |-> "ok", inserted |-> 0, duplicates |-> 0,
                           links |-> 0], fls, t.value)
    IN  IF st.status = "ok"
        THEN [db |-> st.db, status |-> "ok",
              value |-> [inserted |-> st.inserted, duplicates |-> st.duplicates,
                         tag_links |-> st.links]]
        ELSE [db |-> fd, status |-> st.status, value |-> NoValue]

ImportFiles(fls, tgs) ==
    LET r == import_files(filedb, fls, tgs)
    IN  /\ filedb' = r.db
        /\ ret' = Return("import_files", r)
        /\ UNCHANGED <<storeVars, disk, items, index, hidden, query, archive>>

(* SpecFiles: calls of import_files on a new database.  Paths a and b hold   *)
(* the same content, c another; d is a directory, e does not exist, f cannot *)
(* be read and the name of g~ cannot be stored.                              *)

Found(path, kind, sha256, readable) ==
    [path |-> path, kind |-> kind, sha256 |-> sha256, readable |-> readable]

FilePaths ==
    {Found("a", "file", "X", TRUE), Found("b", "file", "X", TRUE),
     Found("c", "file", "Y", TRUE), Found("d", "dir", "", TRUE),
     Found("e", "missing", "", TRUE), Found("f", "file", "Z", FALSE),
     Found("g~", "file", "W", TRUE)}

FileLists == UNION {[1..n -> FilePaths] : n \in 0..MaxFiles}
TagLists == {<<>>, <<"t">>, <<" t ", "  ">>, <<"u", "t">>, <<"t", " t ">>}

NextFiles == \E fls \in FileLists, tgs \in TagLists : ImportFiles(fls, tgs)

SpecFiles == Init /\ [][NextFiles]_vars

\* positions of the regular files of the list
Processed(fls) == {k \in 1..Len(fls) : fls[k].kind = "file"}

\* the file at position k has a digest that is neither stored nor met earlier in the list
NotYetStored(fd, fls, k) ==
    /\ \A f \in fd.files : f.sha256 # fls[k].sha256
    /\ \A j \in Processed(fls) : j < k => fls[j].sha256 # fls[k].sha256

\* test_dedup: content X imported from a and then from b
DedupFirst == import_files(EmptyFileDB, <<Found("a", "file", "X", TRUE)>>, <<>>)
DedupSecond == import_files(DedupFirst.db, <<Found("b", "file", "X", TRUE)>>, <<>>)

\* C7: the files table holds one row per digest; in every state, every call
\* of import_files that returns reports inserted = the processed files whose
\* digest was not yet stored, duplicates = the processed files whose digest
\* was already stored, and leaves exactly the stored and the processed
\* digests in the table; X from a and then from b gives 1/0 and then 0/1.
C7_DedupCounters ==
    /\ \A f, g \in filedb.files : f.sha256 = g.sha256 => f = g
    /\ \A fls \in FileLists, tgs \in TagLists :
          LET r == import_files(filedb, fls, tgs)
              fresh == {k \in Processed(fls) : NotYetStored(filedb, fls, k)}
          IN  r.status = "ok" =>
                /\ r.value.inserted = Cardinality(fresh)
                /\ r.value.duplicates = Cardinality(Processed(fls) \ fresh)
                /\ {f.sha256 : f \in r.db.files}
                       = {f.sha256 : f \in filedb.files}
                             \cup {fls[k].sha256 : k \in Processed(fls)}
                /\ \A f, g \in r.db.files : f.sha256 = g.sha256 => f = g
    /\ DedupFirst.value.inserted = 1 /\ DedupFirst.value.duplicates = 0
    /\ DedupSecond.value.inserted = 0 /\ DedupSecond.value.duplicates = 1
    /\ Cardinality(DedupSecond.db.files) = 1

\* a call has just met content that is stored under another path, and new
\* content in the same list
C7_Witness ==
    /\ ret.op = "import_files" /\ ret.status = "ok"
    /\ ret.value.inserted = 1 /\ ret.value.duplicates = 1
    /\ \E f \in filedb.files : f.sha256 = "X" /\ f.path = "a" /\ f.id = 1
    /\ \E f \in filedb.files : f.sha256 = "Y" /\ f.id = 2
    /\ Cardinality(filedb.files) = 2

\* names of the tags a call passes on: stripped, blanks left out
PassedTags(tgs) == {strip(tgs[k]) : k \in 1..Len(tgs)} \ {""}

\* C32: in every state, every call of import_files that returns leaves every
\* processed file, newly inserted or duplicate, linked to every non-blank tag
\* of the call (a duplicate through the row stored before the call); leaves
\* file_tags with one row per (file, tag); reports as tag_links the number of
\* rows the call added to file_tags; and the same call made again reports
\* tag_links = 0.
C32_TagLinks ==
    /\ \A row \in BagToSet(filedb.file_tags) : CopiesIn(row, filedb.file_tags) = 1
    /\ \A fls \in FileLists, tgs \in TagLists :
          \A r \in {import_files(filedb, fls, tgs)} :
              r.status = "ok" =>
                /\ \A k \in Processed(fls), n \in PassedTags(tgs) :
                      \E f \in r.db.files, t \in r.db.tags :
                         /\ f.sha256 = fls[k].sha256
                         /\ t.name = n
                         /\ BagIn([file_id |-> f.id, tag_id |-> t.id], r.db.file_tags)
                         /\ (\E g \in filedb.files : g.sha256 = f.sha256) => f \in filedb.files
                /\ \A row \in BagToSet(r.db.file_tags) : CopiesIn(row, r.db.file_tags) = 1
                /\ r.value.tag_links
                       = BagCardinality(r.db.file_tags) - BagCardinality(filedb.file_tags)
                /\ \A again \in {import_files(r.db, fls, tgs)} :
                      /\ again.status = "ok"
                      /\ again.value.tag_links = 0
                      /\ again.db = r.db

\* a call has just linked a duplicate to a second tag: content X is stored
\* once, under the path it was first met at, and carries two tags
C32_Witness ==
    /\ ret.op = "import_files" /\ ret.status = "ok"
    /\ ret.value.duplicates >= 1 /\ ret.value.tag_links >= 1
    /\ \E f \in filedb.files :
          /\ f.sha256 = "X"
          /\ Cardinality({row \in BagToSet(filedb.file_tags) : row.file_id = f.id}) = 2

\* the paths of a list that exist and are regular files, in order
RECURSIVE regular_files(_)
regular_files(fls) ==
    IF fls = <<>> THEN <<>>
    ELSE IF Head(fls).kind = "file" THEN <<Head(fls)>> \o regular_files(Tail(fls))
    ELSE regular_files(Tail(fls))

\* C33: in every state, a call of import_files raises exactly when one of its
\* regular files cannot be hashed or cannot be inserted, and then the tags,
\* files and file_tags tables are as they were before the call; paths that
\* do not exist or are not regular files raise nothing, are counted in
\* neither inserted nor duplicates, and the call does what it does without
\* them in the list.
C33_AllOrNothing ==
    \A fls \in FileLists, tgs \in TagLists :
        \A r \in {import_files(filedb, fls, tgs)} :
            /\ r.status # "ok" <=>
                  \E k \in Processed(fls) : ~fls[k].readable \/ ~encodable(fls[k].path)
            /\ r.status # "ok" => r.db = filedb
            /\ r.status = "ok" =>
                  r.value.inserted + r.value.duplicates = Cardinality(Processed(fls))
            /\ r = import_files(filedb, regular_files(fls), tgs)

\* a call has just raised: content X and tag t were stored before, and of
\* content Y and tag u, which calls that raise have met, nothing is stored
C33_Witness ==
    /\ ret.op = "import_files" /\ ret.status \in {"OSError", "UnicodeEncodeError"}
    /\ \E f \in filedb.files : f.sha256 = "X"
    /\ \E t \in filedb.tags : t.name = "t"
    /\ \A f \in filedb.files : f.sha256 # "Y"
    /\ \A t \in filedb.tags : t.name # "u"
    /\ BagCardinality(filedb.file_tags) = 1

====
